---- MODULE Spec2Model ----
(***************************************************************************)
(* State-machine model of imf-creator: the MIDI -> OPL converter           *)
(* (ImfSong._convert_from and its helper closures), the song event order   *)
(* (SongEvent.__lt__ / MidiSongFile.sort) and the helpers they rely on.    *)
(*                                                                         *)
(* Times are counted in 1/TimeDen beats, pitch-bend amounts in 1/BendDen,  *)
(* so that every float the code computes is an exact rational here.        *)
(***************************************************************************)
EXTENDS Integers, Sequences, FiniteSets, TLC

(***************************************************************************)
(* Bounds of the model.                                                    *)
(***************************************************************************)
TimeDen == 4          \* event times are multiples of 1/TimeDen beat
MaxTime == 1          \* largest event time of the tempo family, in beats
MaxEvents == 4        \* events per song in the tempo family
MaxPolyEvents == 11   \* events per song in the polyphony family
MaxCalls == 3         \* add_command calls in the add_command family
MaxSortLen == 3       \* events per list in the sorting family

None == -1            \* Python's None for numbers, notes, shadows

(***************************************************************************)
(* imfcreator/adlib.py: registers and the block / f-number table.          *)
(***************************************************************************)
MODULATORS == <<0, 1, 2, 8, 9, 10, 16, 17, 18>>       \* indexed from channel 0
CARRIERS == [c \in 1..9 |-> MODULATORS[c] + 3]

VIBRATO_MSG == 32
VOLUME_MSG == 64
ATTACK_DECAY_MSG == 96
SUSTAIN_RELEASE_MSG == 128
FREQ_MSG == 160
BLOCK_MSG == 176
DRUM_MSG == 189
FEEDBACK_MSG == 192
WAVEFORM_SELECT_MSG == 224
COMP_SINE_WAVE_MODE_MSG == 8
KEY_ON_MASK == 32

BLOCK_FREQ_NOTE_MAP ==
  << <<0, 345>>, <<0, 365>>, <<0, 387>>, <<0, 410>>, <<0, 435>>, <<0, 460>>,
     <<0, 488>>, <<0, 517>>, <<0, 547>>, <<0, 580>>, <<0, 615>>, <<0, 651>>,
     <<0, 690>>, <<0, 731>>, <<0, 774>>, <<0, 820>>, <<0, 869>>, <<0, 921>>,
     <<0, 975>>, <<1, 517>>, <<1, 547>>, <<1, 580>>, <<1, 615>>, <<1, 651>>,
     <<1, 690>>, <<1, 731>>, <<1, 774>>, <<1, 820>>, <<1, 869>>, <<1, 921>>,
     <<1, 975>>, <<2, 517>>, <<2, 547>>, <<2, 580>>, <<2, 615>>, <<2, 651>>,
     <<2, 690>>, <<2, 731>>, <<2, 774>>, <<2, 820>>, <<2, 869>>, <<2, 921>>,
     <<2, 975>>, <<3, 517>>, <<3, 547>>, <<3, 580>>, <<3, 615>>, <<3, 651>>,
     <<3, 690>>, <<3, 731>>, <<3, 774>>, <<3, 820>>, <<3, 869>>, <<3, 921>>,
     <<3, 975>>, <<4, 517>>, <<4, 547>>, <<4, 580>>, <<4, 615>>, <<4, 651>>,
     <<4, 690>>, <<4, 731>>, <<4, 774>>, <<4, 820>>, <<4, 869>>, <<4, 921>>,
     <<4, 975>>, <<5, 517>>, <<5, 547>>, <<5, 580>>, <<5, 615>>, <<5, 651>>,
     <<5, 690>>, <<5, 731>>, <<5, 774>>, <<5, 820>>, <<5, 869>>, <<5, 921>>,
     <<5, 975>>, <<6, 517>>, <<6, 547>>, <<6, 580>>, <<6, 615>>, <<6, 651>>,
     <<6, 690>>, <<6, 731>>, <<6, 774>>, <<6, 820>>, <<6, 869>>, <<6, 921>>,
     <<6, 975>>, <<7, 517>>, <<7, 547>>, <<7, 580>>, <<7, 615>>, <<7, 651>>,
     <<7, 690>>, <<7, 731>>, <<7, 774>>, <<7, 820>>, <<7, 869>>, <<7, 921>>,
     <<7, 975>> >>

(***************************************************************************)
(* Bit arithmetic on bytes, as the code's &, |, << and >> compute it.      *)
(***************************************************************************)
RECURSIVE Pow2(_)
Pow2(n) == IF n = 0 THEN 1 ELSE 2 * Pow2(n - 1)

Bit(x, k) == (x \div Pow2(k)) % 2

RECURSIVE BitAnd(_, _)
BitAnd(x, y) ==
  IF x = 0 \/ y = 0 THEN 0
  ELSE (x % 2) * (y % 2) + 2 * BitAnd(x \div 2, y \div 2)

BitOr(x, y) == x + y - BitAnd(x, y)

\* int(): truncation toward zero of the rational num / den, den > 0
TruncDiv(num, den) == IF num >= 0 THEN num \div den ELSE -((-num) \div den)


(***************************************************************************)
(* imfcreator/adlib.py: instruments.  An instrument is referred to by its  *)
(* position in Instruments (the code compares instrument objects by        *)
(* identity); voice 0 is the only voice the converter uses.                *)
(***************************************************************************)
AdlibOperator(tvskm, ksl_output, attack_decay, sustain_release, waveform_select) ==
  [tvskm |-> tvskm, ksl_output |-> ksl_output, attack_decay |-> attack_decay,
   sustain_release |-> sustain_release, waveform_select |-> waveform_select]

key_scale_level(op) == (op.ksl_output \div 64) % 4

output_level(op) == op.ksl_output % 64

Instruments ==
  << \* 1: an FM patch (connection bit clear)
     [modulator |-> AdlibOperator(48, 79, 241, 83, 0),
      carrier |-> AdlibOperator(16, 0, 242, 116, 0),
      feedback |-> 6, note_offset |-> 0, use_given_note |-> FALSE, given_note |-> 0],
     \* 2: an AM patch (connection bit set), transposed an octave up
     [modulator |-> AdlibOperator(33, 138, 245, 23, 1),
      carrier |-> AdlibOperator(33, 5, 243, 39, 0),
      feedback |-> 9, note_offset |-> 12, use_given_note |-> FALSE, given_note |-> 0],
     \* 3: a percussion patch that plays its given note
     [modulator |-> AdlibOperator(0, 11, 168, 76, 0),
      carrier |-> AdlibOperator(0, 0, 214, 79, 0),
      feedback |-> 0, note_offset |-> 0, use_given_note |-> TRUE, given_note |-> 36],
     \* 4: the FM patch transposed an octave down
     [modulator |-> AdlibOperator(48, 79, 241, 83, 0),
      carrier |-> AdlibOperator(16, 0, 242, 116, 0),
      feedback |-> 6, note_offset |-> -12, use_given_note |-> FALSE, given_note |-> 0] >>

get_regs(inst, channel) ==
  LET mod_op == MODULATORS[channel + 1]
      car_op == CARRIERS[channel + 1]
      m == Instruments[inst].modulator
      c == Instruments[inst].carrier
  IN << <<VIBRATO_MSG + mod_op, m.tvskm>>,
        <<VOLUME_MSG + mod_op, m.ksl_output>>,
        <<ATTACK_DECAY_MSG + mod_op, m.attack_decay>>,
        <<SUSTAIN_RELEASE_MSG + mod_op, m.sustain_release>>,
        <<WAVEFORM_SELECT_MSG + mod_op, m.waveform_select>>,
        <<VIBRATO_MSG + car_op, c.tvskm>>,
        <<VOLUME_MSG + car_op, c.ksl_output>>,
        <<ATTACK_DECAY_MSG + car_op, c.attack_decay>>,
        <<SUSTAIN_RELEASE_MSG + car_op, c.sustain_release>>,
        <<WAVEFORM_SELECT_MSG + car_op, c.waveform_select>>,
        <<FEEDBACK_MSG + channel, Instruments[inst].feedback>> >>

(***************************************************************************)
(* imfcreator/instruments.py: the catalog and its lookup.                  *)
(***************************************************************************)
MELODIC == 0
PERCUSSION == 1

\* the catalog the songs are converted against: key <<type, bank, program>>
Catalog ==
  (<<MELODIC, 0, 0>> :> 1) @@ (<<MELODIC, 0, 1>> :> 2) @@ (<<PERCUSSION, 0, 35>> :> 3)

InstrumentsGet(inst_type, bank, program) ==
  LET key == <<inst_type, bank, program>>
      key0 == IF bank > 0 /\ key \notin DOMAIN Catalog
              THEN <<inst_type, 0, program>> ELSE key
  IN IF key0 \in DOMAIN Catalog THEN Catalog[key0] ELSE None

(***************************************************************************)
(* Song events (imfcreator/midi.py).  Every event carries all data keys;   *)
(* a key the event type does not have is None.                             *)
(***************************************************************************)
SongEvent(index, track, time, type, channel, a, b) ==
  [index |-> index, track |-> track, time |-> time, type |-> type, channel |-> channel,
   note |-> IF type \in {"NOTE_OFF", "NOTE_ON"} THEN a ELSE None,
   velocity |-> IF type \in {"NOTE_OFF", "NOTE_ON"} THEN b ELSE None,
   controller |-> IF type = "CONTROLLER_CHANGE" THEN a ELSE None,
   value |-> IF type \in {"CONTROLLER_CHANGE", "PITCH_BEND"} THEN b ELSE None,
   program |-> IF type = "PROGRAM_CHANGE" THEN a ELSE None,
   meta_type |-> IF type = "META" THEN a ELSE None,
   bpm |-> IF type = "META" THEN b ELSE None]

SET_TEMPO == 81
END_OF_TRACK == 47

\* the type priorities with PITCH_BEND ahead of NOTE_OFF
_EVENT_TYPE_ORDER_bend_first ==
  [t \in {"NOTE_OFF", "NOTE_ON", "POLYPHONIC_KEY_PRESSURE", "CONTROLLER_CHANGE",
          "PROGRAM_CHANGE", "CHANNEL_KEY_PRESSURE", "PITCH_BEND", "F0_SYSEX",
          "F7_SYSEX", "META"} |->
     CASE t = "NOTE_OFF" -> 10
       [] t = "NOTE_ON" -> 100
       [] t = "POLYPHONIC_KEY_PRESSURE" -> 40
       [] t = "CONTROLLER_CHANGE" -> 2
       [] t = "PROGRAM_CHANGE" -> 1
       [] t = "CHANNEL_KEY_PRESSURE" -> 50
       [] t = "PITCH_BEND" -> 5
       [] OTHER -> 0]

_EVENT_TYPE_ORDER ==
  [t \in {"NOTE_OFF", "NOTE_ON", "POLYPHONIC_KEY_PRESSURE", "CONTROLLER_CHANGE",
          "PROGRAM_CHANGE", "CHANNEL_KEY_PRESSURE", "PITCH_BEND", "F0_SYSEX",
          "F7_SYSEX", "META"} |->
     CASE t = "NOTE_OFF" -> 10
       [] t = "NOTE_ON" -> 100
       [] t = "POLYPHONIC_KEY_PRESSURE" -> 40
       [] t = "CONTROLLER_CHANGE" -> 2
       [] t = "PROGRAM_CHANGE" -> 1
       [] t = "CHANNEL_KEY_PRESSURE" -> 50
       [] t = "PITCH_BEND" -> 30
       [] OTHER -> 0]

\* SongEvent.__eq__
SongEventEq(self, other) ==
  /\ self.time = other.time
  /\ _EVENT_TYPE_ORDER[self.type] = _EVENT_TYPE_ORDER[other.type]
  /\ self.channel = other.channel
  /\ self.track = other.track
  /\ self.index = other.index

\* __lt__ without the track tie-break
SongEventLt_no_track(self, other) ==
  LET self_channel == IF self.channel = None THEN -1 ELSE self.channel
      other_channel == IF other.channel = None THEN -1 ELSE other.channel
  IN IF self.time < other.time THEN TRUE
     ELSE IF self.time > other.time THEN FALSE
     ELSE IF _EVENT_TYPE_ORDER[self.type] < _EVENT_TYPE_ORDER[other.type] THEN TRUE
     ELSE IF _EVENT_TYPE_ORDER[self.type] > _EVENT_TYPE_ORDER[other.type] THEN FALSE
     ELSE IF self_channel < other_channel THEN TRUE
     ELSE IF self_channel > other_channel THEN FALSE
     ELSE self.index < other.index

\* SongEvent.__lt__
SongEventLt(self, other) ==
  LET self_channel == IF self.channel = None THEN -1 ELSE self.channel
      other_channel == IF other.channel = None THEN -1 ELSE other.channel
  IN IF self.time < other.time THEN TRUE
     ELSE IF self.time > other.time THEN FALSE
     ELSE IF _EVENT_TYPE_ORDER[self.type] < _EVENT_TYPE_ORDER[other.type] THEN TRUE
     ELSE IF _EVENT_TYPE_ORDER[self.type] > _EVENT_TYPE_ORDER[other.type] THEN FALSE
     ELSE IF self_channel < other_channel THEN TRUE
     ELSE IF self_channel > other_channel THEN FALSE
     ELSE IF self.track < other.track THEN TRUE
     ELSE IF self.track > other.track THEN FALSE
     ELSE self.index < other.index


(***************************************************************************)
(* imfcreator/plugins/imffileplugin.py: the converter's channel records.   *)
(***************************************************************************)
BendDen == 4          \* pitch-bend amounts are multiples of 1/BendDen

PERCUSSION_CHANNEL == 9
BANK_SELECT_MSB == 0
BANK_SELECT_LSB == 32
VOLUME_MSB == 7
EXPRESSION_MSB == 11
XG_BRIGHTNESS == 74
RPN_LSB == 100
RPN_MSB == 101

calculate_msb_lsb(msb, lsb) == msb * 128 + lsb

_DRUM_BANKS == {calculate_msb_lsb(120, 0), calculate_msb_lsb(127, 0)}

\* _MidiChannelInfo.__init__ followed by reset_controllers(); the attribute
\* scaled_pitch_bend does not exist until pitch_bend() assigns it
_MidiChannelInfo(number) ==
  [number |-> number,
   instrument |-> None,
   active_notes |-> << >>,
   pitch_bend |-> 0,
   has_scaled_pitch_bend |-> FALSE,
   scaled_pitch_bend |-> 0,
   controllers |-> [x \in 0..127 |->
                      CASE x = VOLUME_MSB -> 100
                        [] x = XG_BRIGHTNESS -> 127
                        [] x = EXPRESSION_MSB -> 127
                        [] x = RPN_MSB -> 127
                        [] x = RPN_LSB -> 127
                        [] OTHER -> 0]]

_ImfChannelInfo(number) == [number |-> number, instrument |-> None, last_note |-> None]

_ActiveNote(note, song_event) == [note |-> note, song_event |-> song_event]

get_bank(midi_channel) ==
  calculate_msb_lsb(midi_channel.controllers[BANK_SELECT_MSB],
                    midi_channel.controllers[BANK_SELECT_LSB])

\* SongEvent.is_percussion: the event is on the MIDI percussion channel
is_percussion(song_event) == song_event.channel = PERCUSSION_CHANNEL

is_percussion_event(mc, song_event) ==
  is_percussion(song_event) \/ get_bank(mc[song_event.channel]) \in _DRUM_BANKS

\* next(filter(pred, seq), None), given the sequence of pred's values:
\* position of the first element that passes, 0 for None
RECURSIVE FirstFrom(_, _)
FirstFrom(passes, i) ==
  IF i > Len(passes) THEN 0
  ELSE IF passes[i] THEN i
  ELSE FirstFrom(passes, i + 1)

\* find_imf_channel without the preference for a channel already set to the instrument
find_imf_channel_any_free(ic, instrument, note) ==
  FirstFrom([i \in 1..Len(ic) |-> ic[i].last_note = None], 1)

\* find_imf_channel falling back to the first channel when none is free
find_imf_channel_steal(ic, instrument, note) ==
  LET first == FirstFrom([i \in 1..Len(ic) |->
                            ic[i].instrument = instrument /\ ic[i].last_note = None], 1)
      free == FirstFrom([i \in 1..Len(ic) |-> ic[i].last_note = None], 1)
  IN IF first # 0 THEN first ELSE IF free # 0 THEN free ELSE 1

find_imf_channel(ic, instrument, note) ==
  LET first == FirstFrom([i \in 1..Len(ic) |->
                            ic[i].instrument = instrument /\ ic[i].last_note = None], 1)
  IN IF first # 0 THEN first
     ELSE FirstFrom([i \in 1..Len(ic) |-> ic[i].last_note = None], 1)

find_imf_channel_for_instrument_note(ic, instrument, note) ==
  FirstFrom([i \in 1..Len(ic) |-> ic[i].instrument = instrument /\ ic[i].last_note = note], 1)

\* get_block_and_freq(note, scaled_pitch_bend), the bend being bend2 / BendDen
\* semitones (bend2 = 2 * amount numerator).  Result: [err, block, freq].
RECURSIVE ReduceNote(_)
ReduceNote(note) == IF note >= Len(BLOCK_FREQ_NOTE_MAP) THEN ReduceNote(note - 12) ELSE note

FloorDiv(a, b) == a \div b      \* math.floor(a / b), b > 0

CeilDiv(a, b) == -((-a) \div b) \* math.ceil(a / b), b > 0

\* Python list indexing: negative indexes count from the end
PyIndexOk(seq, i) == i < Len(seq) /\ i >= -Len(seq)

PyIndex(seq, i) == IF i >= 0 THEN seq[i + 1] ELSE seq[Len(seq) + i + 1]

get_block_and_freq(note0, bend2) ==
  LET \* the two asserts on the result
      Result(block, freq) ==
        IF 0 <= block /\ block <= 7 /\ 0 <= freq /\ freq <= 1023
        THEN [err |-> "", block |-> block, freq |-> freq]
        ELSE [err |-> "AssertionError", block |-> block, freq |-> freq]
      \* bending down: the bend-to f-num is divided by 2^(block - bend_block)
      \* bending up: the original f-num is divided by 2^(bend_block - block)
      \* freq + (bend_freq - freq) * bend / semitones over a common denominator;
      \* bend / semitones = absBend / (BendDen * absSemi) is positive
      Bend(block, freq, bend_block, bend_freq, absSemi, absBend) ==
        LET shiftDown == IF bend2 < 0 /\ bend_block < block THEN Pow2(block - bend_block) ELSE 1
            shiftUp == IF bend2 > 0 /\ bend_block > block THEN Pow2(bend_block - block) ELSE 1
            newBlock == IF bend2 > 0 /\ bend_block > block THEN bend_block ELSE block
        IN Result(newBlock,
                  TruncDiv(freq * shiftDown * BendDen * absSemi
                             + (bend_freq * shiftUp - freq * shiftDown) * absBend,
                           shiftDown * shiftUp * BendDen * absSemi))
      Entries(entry, bend_entry, semitones) ==
        Bend(entry[1], entry[2], bend_entry[1], bend_entry[2],
             IF semitones < 0 THEN -semitones ELSE semitones,
             IF bend2 < 0 THEN -bend2 ELSE bend2)
      Lookup(note, semitones) ==
        IF bend2 = 0 THEN Result(BLOCK_FREQ_NOTE_MAP[note + 1][1], BLOCK_FREQ_NOTE_MAP[note + 1][2])
        ELSE IF ~PyIndexOk(BLOCK_FREQ_NOTE_MAP, note + semitones)
          THEN [err |-> "IndexError", block |-> 0, freq |-> 0]
        ELSE Entries(BLOCK_FREQ_NOTE_MAP[note + 1],
                     PyIndex(BLOCK_FREQ_NOTE_MAP, note + semitones), semitones)
  IN IF ~(note0 < 128) THEN [err |-> "AssertionError", block |-> 0, freq |-> 0]
     ELSE Lookup(ReduceNote(note0),
                 IF bend2 < 0 THEN FloorDiv(bend2, BendDen) ELSE CeilDiv(bend2, BendDen))


(***************************************************************************)
(* get_volume_commands and its two operator curves.                        *)
(***************************************************************************)
volume_table ==
  << 0, 1, 3, 5, 6, 8, 10, 11,
     13, 14, 16, 17, 19, 20, 22, 23,
     25, 26, 27, 29, 30, 32, 33, 34,
     36, 37, 39, 41, 43, 45, 47, 49,
     50, 52, 54, 55, 57, 59, 60, 61,
     63, 64, 66, 67, 68, 69, 71, 72,
     73, 74, 75, 76, 77, 79, 80, 81,
     82, 83, 84, 84, 85, 86, 87, 88,
     89, 90, 91, 92, 92, 93, 94, 95,
     96, 96, 97, 98, 99, 99, 100, 101,
     101, 102, 103, 103, 104, 105, 105, 106,
     107, 107, 108, 109, 109, 110, 110, 111,
     112, 112, 113, 113, 114, 114, 115, 115,
     116, 117, 117, 118, 118, 119, 119, 120,
     120, 121, 121, 122, 122, 123, 123, 123,
     124, 124, 125, 125, 126, 126, 127, 127 >>

\* round(127.0 * sqrt(b / 127.0)): the integer nearest to sqrt(127 * b)
RoundSqrt127(b) ==
  CHOOSE r \in 0..127 : 127 * b <= r * r + r /\ (r = 0 \/ 127 * b > r * r - r)

get_midi_volume(midi_channel, note_velocity) ==
  LET v == (midi_channel.controllers[VOLUME_MSB]
            * midi_channel.controllers[EXPRESSION_MSB]
            * note_velocity) \div 16129
  IN IF v > 127 THEN 127 ELSE v

get_midi_brightness(midi_channel) ==
  IF midi_channel.controllers[XG_BRIGHTNESS] >= 64 THEN 127
  ELSE midi_channel.controllers[XG_BRIGHTNESS] * 2

\* the attenuation scaled by the MIDI volume itself, without the table
get_operator_volume_linear(op_volume, midi_volume) ==
  LET n == 63 - (op_volume % 64)
  IN 63 - (((n * 2) * midi_volume) \div 256)

get_operator_volume(op_volume, midi_volume) ==
  LET n == 63 - (op_volume % 64)
  IN 63 - (((n * 2) * volume_table[midi_volume + 1]) \div 256)

get_operator_brightness(op_volume, midi_brightness) ==
  IF midi_brightness = 127 THEN op_volume % 64
  ELSE LET n == 63 - (op_volume % 64)
           brightness == RoundSqrt127(midi_brightness) \div 2
       IN 63 - ((n * brightness) \div 63)

\* both operators on the volume curve, whatever the connection bit
get_volume_commands_scaled(channel, inst, midi_channel, note_velocity) ==
  LET midi_volume == get_midi_volume(midi_channel, note_velocity)
      midi_brightness == get_midi_brightness(midi_channel)
      get_modulator_volume ==
        get_operator_volume(output_level(inst.modulator), midi_volume)
      \* the two local variables, each computed once
      Commands(modulator_volume, carrier_volume) ==
        << <<VOLUME_MSG + MODULATORS[channel.number + 1],
             BitOr(modulator_volume, key_scale_level(inst.modulator) * 64)>>,
           <<VOLUME_MSG + CARRIERS[channel.number + 1],
             BitOr(carrier_volume, key_scale_level(inst.carrier) * 64)>> >>
  IN CHOOSE commands_ \in
       {Commands(modulator_volume, carrier_volume) :
          modulator_volume \in {get_modulator_volume},
          carrier_volume \in {get_operator_volume(output_level(inst.carrier), midi_volume)}} : TRUE

get_volume_commands_for(channel, inst, midi_channel, note_velocity) ==
  LET midi_volume == get_midi_volume(midi_channel, note_velocity)
      midi_brightness == get_midi_brightness(midi_channel)
      get_modulator_volume ==
        IF inst.feedback % 2 = 1
        THEN get_operator_volume(output_level(inst.modulator), midi_volume)
        ELSE get_operator_brightness(output_level(inst.modulator), midi_brightness)
      \* the two local variables, each computed once
      Commands(modulator_volume, carrier_volume) ==
        << <<VOLUME_MSG + MODULATORS[channel.number + 1],
             BitOr(modulator_volume, key_scale_level(inst.modulator) * 64)>>,
           <<VOLUME_MSG + CARRIERS[channel.number + 1],
             BitOr(carrier_volume, key_scale_level(inst.carrier) * 64)>> >>
  IN CHOOSE commands_ \in
       {Commands(modulator_volume, carrier_volume) :
          modulator_volume \in {get_modulator_volume},
          carrier_volume \in {get_operator_volume(output_level(inst.carrier), midi_volume)}} : TRUE

\* the instrument given by its place in Instruments
get_volume_commands(channel, instrument, midi_channel, note_velocity) ==
  get_volume_commands_for(channel, Instruments[instrument], midi_channel, note_velocity)

(***************************************************************************)
(* Instrument and note of an event.  The handlers below return a record    *)
(* [mc, ic, cmds, err]: the channel records after the handler, the         *)
(* (reg, value) list it returns and the exception it raised ("" for none). *)
(***************************************************************************)
_validate_args(inst_type, bank, program) ==
  /\ inst_type \in {MELODIC, PERCUSSION}
  /\ bank >= 0 /\ bank <= 16383
  /\ program >= 0 /\ program <= 127

\* [mc, inst, err]
get_event_instrument(mc, song_event) ==
  LET midi_channel == mc[song_event.channel]
      bank == get_bank(midi_channel)
  IN IF is_percussion_event(mc, song_event) THEN
       IF song_event.note = None THEN [mc |-> mc, inst |-> None, err |-> "KeyError"]
       ELSE IF ~_validate_args(PERCUSSION, bank, song_event.note)
         THEN [mc |-> mc, inst |-> None, err |-> "ValueError"]
       ELSE [mc |-> mc, inst |-> InstrumentsGet(PERCUSSION, bank, song_event.note), err |-> ""]
     ELSE
       LET inst_num == IF midi_channel.instrument = None THEN 0 ELSE midi_channel.instrument
           mc1 == [mc EXCEPT ![song_event.channel].instrument = inst_num]
       IN IF ~_validate_args(MELODIC, bank, inst_num)
          THEN [mc |-> mc1, inst |-> None, err |-> "ValueError"]
          ELSE [mc |-> mc1, inst |-> InstrumentsGet(MELODIC, bank, inst_num), err |-> ""]

\* the same function clamping the sum into 0..127
get_instrument_note_clamped(instrument, song_event) ==
  LET inst == Instruments[instrument]
      note == (IF inst.use_given_note THEN inst.given_note ELSE song_event.note)
              + inst.note_offset
  IN IF note < 0 THEN 0 ELSE IF note > 127 THEN 127 ELSE note

get_instrument_note(instrument, song_event) ==
  LET inst == Instruments[instrument]
      note == (IF inst.use_given_note THEN inst.given_note ELSE song_event.note)
              + inst.note_offset
  IN IF note < 0 \/ note > 127 THEN 60 ELSE note

\* what get_instrument_note writes to the log
get_instrument_note_log(instrument, song_event) ==
  LET inst == Instruments[instrument]
      note == (IF inst.use_given_note THEN inst.given_note ELSE song_event.note)
              + inst.note_offset
  IN IF note < 0 \/ note > 127 THEN << <<"error", "Note out of range", song_event>> >>
     ELSE << >>

RemoveAt(seq, i) == [j \in 1..(Len(seq) - 1) |-> IF j < i THEN seq[j] ELSE seq[j + 1]]

Raise(mc, ic, err) == [mc |-> mc, ic |-> ic, cmds |-> << >>, err |-> err]

Return(mc, ic, cmds) == [mc |-> mc, ic |-> ic, cmds |-> cmds, err |-> ""]

\* note_off keying the channel off without clearing its last_note
note_off_keeps_last_note(mc, ic, shadow, song_event) ==
  LET KeyOff(mc1, channel) ==
        IF channel = 0 THEN Return(mc1, ic, << >>)
        ELSE IF shadow[BLOCK_MSG + ic[channel].number] = None
          THEN Raise(mc1, [ic EXCEPT ![channel].last_note = None], "TypeError")
        ELSE Return(mc1, ic,
                    << <<BLOCK_MSG + ic[channel].number,
                         shadow[BLOCK_MSG + ic[channel].number]
                           - KEY_ON_MASK * Bit(shadow[BLOCK_MSG + ic[channel].number], 5)>> >>)
      Matched(mc0, instrument, active_notes, match) ==
        IF match = 0 THEN Raise(mc0, ic, "ValueError")
        ELSE KeyOff([mc0 EXCEPT ![song_event.channel].active_notes = RemoveAt(active_notes, match)],
                    find_imf_channel_for_instrument_note(ic, instrument, active_notes[match].note))
      Instrument(mc0, instrument, active_notes) ==
        IF is_percussion_event(mc0, song_event)
        THEN KeyOff(mc0, find_imf_channel_for_instrument_note(
                           ic, instrument, get_instrument_note(instrument, song_event)))
        ELSE Matched(mc0, instrument, active_notes,
                     FirstFrom([i \in 1..Len(active_notes) |->
                                  active_notes[i].song_event.note = song_event.note], 1))
      Got(gi) ==
        IF gi.err # "" THEN Raise(gi.mc, ic, gi.err)
        ELSE IF gi.inst = None THEN Return(gi.mc, ic, << >>)
        ELSE Instrument(gi.mc, gi.inst, gi.mc[song_event.channel].active_notes)
  IN Got(get_event_instrument(mc, song_event))

\* note_off writing the bare key-off mask, the block and F-number bits dropped
note_off_key_off_mask(mc, ic, shadow, song_event) ==
  LET KeyOff(mc1, channel) ==
        IF channel = 0 THEN Return(mc1, ic, << >>)
        ELSE IF shadow[BLOCK_MSG + ic[channel].number] = None
          THEN Raise(mc1, [ic EXCEPT ![channel].last_note = None], "TypeError")
        ELSE Return(mc1, [ic EXCEPT ![channel].last_note = None],
                    << <<BLOCK_MSG + ic[channel].number,
                         0>> >>)
      Matched(mc0, instrument, active_notes, match) ==
        IF match = 0 THEN Raise(mc0, ic, "ValueError")
        ELSE KeyOff([mc0 EXCEPT ![song_event.channel].active_notes = RemoveAt(active_notes, match)],
                    find_imf_channel_for_instrument_note(ic, instrument, active_notes[match].note))
      Instrument(mc0, instrument, active_notes) ==
        IF is_percussion_event(mc0, song_event)
        THEN KeyOff(mc0, find_imf_channel_for_instrument_note(
                           ic, instrument, get_instrument_note(instrument, song_event)))
        ELSE Matched(mc0, instrument, active_notes,
                     FirstFrom([i \in 1..Len(active_notes) |->
                                  active_notes[i].song_event.note = song_event.note], 1))
      Got(gi) ==
        IF gi.err # "" THEN Raise(gi.mc, ic, gi.err)
        ELSE IF gi.inst = None THEN Return(gi.mc, ic, << >>)
        ELSE Instrument(gi.mc, gi.inst, gi.mc[song_event.channel].active_notes)
  IN Got(get_event_instrument(mc, song_event))

note_off(mc, ic, shadow, song_event) ==
  LET KeyOff(mc1, channel) ==
        IF channel = 0 THEN Return(mc1, ic, << >>)
        ELSE IF shadow[BLOCK_MSG + ic[channel].number] = None
          THEN Raise(mc1, [ic EXCEPT ![channel].last_note = None], "TypeError")
        ELSE Return(mc1, [ic EXCEPT ![channel].last_note = None],
                    << <<BLOCK_MSG + ic[channel].number,
                         shadow[BLOCK_MSG + ic[channel].number]
                           - KEY_ON_MASK * Bit(shadow[BLOCK_MSG + ic[channel].number], 5)>> >>)
      Matched(mc0, instrument, active_notes, match) ==
        IF match = 0 THEN Raise(mc0, ic, "ValueError")
        ELSE KeyOff([mc0 EXCEPT ![song_event.channel].active_notes = RemoveAt(active_notes, match)],
                    find_imf_channel_for_instrument_note(ic, instrument, active_notes[match].note))
      Instrument(mc0, instrument, active_notes) ==
        IF is_percussion_event(mc0, song_event)
        THEN KeyOff(mc0, find_imf_channel_for_instrument_note(
                           ic, instrument, get_instrument_note(instrument, song_event)))
        ELSE Matched(mc0, instrument, active_notes,
                     FirstFrom([i \in 1..Len(active_notes) |->
                                  active_notes[i].song_event.note = song_event.note], 1))
      Got(gi) ==
        IF gi.err # "" THEN Raise(gi.mc, ic, gi.err)
        ELSE IF gi.inst = None THEN Return(gi.mc, ic, << >>)
        ELSE Instrument(gi.mc, gi.inst, gi.mc[song_event.channel].active_notes)
  IN Got(get_event_instrument(mc, song_event))

\* note_on recording the active note before it looks at the instrument
note_on_tracks_missing(mc, ic, song_event) ==
  LET NotVolume(cmd) == BitAnd(cmd[1], 240) # VOLUME_MSG
      KeyOn(mc1, ic1, midi_channel, instrument, number, setup, bf) ==
        IF bf.err # "" THEN Raise(mc1, ic1, bf.err)
        ELSE Return(mc1, ic1,
               setup
               \o get_volume_commands([number |-> number], instrument, midi_channel,
                                      song_event.velocity)
               \o << <<FREQ_MSG + number, bf.freq % 256>>,
                     <<BLOCK_MSG + number, KEY_ON_MASK + bf.block * 4 + (bf.freq \div 256)>> >>)
      Play(mc1, ic1, midi_channel, instrument, note, number, setup) ==
        IF ~midi_channel.has_scaled_pitch_bend THEN Raise(mc1, ic1, "AttributeError")
        ELSE KeyOn(mc1, ic1, midi_channel, instrument, number, setup,
                   get_block_and_freq(note, midi_channel.scaled_pitch_bend))
      Found(mc1, instrument, note, channel) ==
        IF channel = 0 THEN Return(mc1, ic, << >>)
        ELSE Play(mc1,
                  [ic EXCEPT ![channel].instrument = instrument, ![channel].last_note = note],
                  mc1[song_event.channel], instrument, note, ic[channel].number,
                  IF ic[channel].instrument # instrument
                  THEN SelectSeq(get_regs(instrument, ic[channel].number), NotVolume)
                  ELSE << >>)
      Note(mc0, instrument, note) ==
        Found(IF is_percussion_event(mc0, song_event) THEN mc0
              ELSE [mc0 EXCEPT ![song_event.channel].active_notes =
                                 Append(@, _ActiveNote(note, song_event))],
              instrument, note, find_imf_channel(ic, instrument, note))
      Got(gi) ==
        IF gi.err # "" THEN Raise(gi.mc, ic, gi.err)
        ELSE IF gi.inst = None
          THEN Return([gi.mc EXCEPT ![song_event.channel].active_notes =
                                      Append(@, _ActiveNote(song_event.note, song_event))],
                      ic, << >>)
        ELSE Note(gi.mc, gi.inst, get_instrument_note(gi.inst, song_event))
  IN Got(get_event_instrument(mc, song_event))

note_on(mc, ic, song_event) ==
  LET NotVolume(cmd) == BitAnd(cmd[1], 240) # VOLUME_MSG
      KeyOn(mc1, ic1, midi_channel, instrument, number, setup, bf) ==
        IF bf.err # "" THEN Raise(mc1, ic1, bf.err)
        ELSE Return(mc1, ic1,
               setup
               \o get_volume_commands([number |-> number], instrument, midi_channel,
                                      song_event.velocity)
               \o << <<FREQ_MSG + number, bf.freq % 256>>,
                     <<BLOCK_MSG + number, KEY_ON_MASK + bf.block * 4 + (bf.freq \div 256)>> >>)
      Play(mc1, ic1, midi_channel, instrument, note, number, setup) ==
        IF ~midi_channel.has_scaled_pitch_bend THEN Raise(mc1, ic1, "AttributeError")
        ELSE KeyOn(mc1, ic1, midi_channel, instrument, number, setup,
                   get_block_and_freq(note, midi_channel.scaled_pitch_bend))
      Found(mc1, instrument, note, channel) ==
        IF channel = 0 THEN Return(mc1, ic, << >>)
        ELSE Play(mc1,
                  [ic EXCEPT ![channel].instrument = instrument, ![channel].last_note = note],
                  mc1[song_event.channel], instrument, note, ic[channel].number,
                  IF ic[channel].instrument # instrument
                  THEN SelectSeq(get_regs(instrument, ic[channel].number), NotVolume)
                  ELSE << >>)
      Note(mc0, instrument, note) ==
        Found(IF is_percussion_event(mc0, song_event) THEN mc0
              ELSE [mc0 EXCEPT ![song_event.channel].active_notes =
                                 Append(@, _ActiveNote(note, song_event))],
              instrument, note, find_imf_channel(ic, instrument, note))
      Got(gi) ==
        IF gi.err # "" THEN Raise(gi.mc, ic, gi.err)
        ELSE IF gi.inst = None THEN Return(gi.mc, ic, << >>)
        ELSE Note(gi.mc, gi.inst, get_instrument_note(gi.inst, song_event))
  IN Got(get_event_instrument(mc, song_event))


\* BendCommands writing the B0 register before the A0 register
RECURSIVE BendCommands_block_first(_, _, _, _, _)
BendCommands_block_first(active_notes, i, ic, instrument, bend2) ==
  LET Both(number, bf, rest) ==
        IF bf.err # "" THEN [cmds |-> << >>, err |-> bf.err]
        ELSE IF rest.err # "" THEN rest
        ELSE [cmds |-> << <<BLOCK_MSG + number,
                            KEY_ON_MASK + bf.block * 4 + (bf.freq \div 256)>>,
                          <<FREQ_MSG + number, bf.freq % 256>> >> \o rest.cmds,
              err |-> ""]
      Found(note, channel) ==
        IF channel = 0 THEN BendCommands_block_first(active_notes, i + 1, ic, instrument, bend2)
        ELSE Both(ic[channel].number, get_block_and_freq(note, bend2),
                  BendCommands_block_first(active_notes, i + 1, ic, instrument, bend2))
  IN IF i > Len(active_notes) THEN [cmds |-> << >>, err |-> ""]
     ELSE Found(active_notes[i].note,
                find_imf_channel_for_instrument_note(ic, instrument, active_notes[i].note))

\* the A0 / B0 pair of every active note of the channel that sounds on an OPL channel
RECURSIVE BendCommands(_, _, _, _, _)
BendCommands(active_notes, i, ic, instrument, bend2) ==
  LET Both(number, bf, rest) ==
        IF bf.err # "" THEN [cmds |-> << >>, err |-> bf.err]
        ELSE IF rest.err # "" THEN rest
        ELSE [cmds |-> << <<FREQ_MSG + number, bf.freq % 256>>,
                          <<BLOCK_MSG + number,
                            KEY_ON_MASK + bf.block * 4 + (bf.freq \div 256)>> >> \o rest.cmds,
              err |-> ""]
      Found(note, channel) ==
        IF channel = 0 THEN BendCommands(active_notes, i + 1, ic, instrument, bend2)
        ELSE Both(ic[channel].number, get_block_and_freq(note, bend2),
                  BendCommands(active_notes, i + 1, ic, instrument, bend2))
  IN IF i > Len(active_notes) THEN [cmds |-> << >>, err |-> ""]
     ELSE Found(active_notes[i].note,
                find_imf_channel_for_instrument_note(ic, instrument, active_notes[i].note))

pitch_bend(mc, ic, song_event) ==
  LET Bent(mc1, bc) ==
        IF bc.err # "" THEN Raise(mc1, ic, bc.err) ELSE Return(mc1, ic, bc.cmds)
      Got(gi, scaled_pitch_bend) ==
        IF gi.err # "" THEN Raise(gi.mc, ic, gi.err)
        ELSE Bent(gi.mc, BendCommands(gi.mc[song_event.channel].active_notes, 1, ic, gi.inst,
                                      scaled_pitch_bend))
      Bend(amount, scaled_pitch_bend) ==
        Got(get_event_instrument(
              [mc EXCEPT ![song_event.channel].pitch_bend = amount,
                         ![song_event.channel].has_scaled_pitch_bend = TRUE,
                         ![song_event.channel].scaled_pitch_bend = scaled_pitch_bend],
              song_event),
            scaled_pitch_bend)
  IN IF is_percussion_event(mc, song_event) THEN Return(mc, ic, << >>)
     ELSE IF mc[song_event.channel].pitch_bend = song_event.value THEN Return(mc, ic, << >>)
     ELSE Bend(song_event.value, song_event.value * 2)

RECURSIVE VolumeCommands(_, _, _, _, _)
VolumeCommands(active_notes, i, ic, instrument, midi_channel) ==
  IF i > Len(active_notes) THEN << >>
  ELSE
    LET imf_channel == find_imf_channel_for_instrument_note(ic, instrument, active_notes[i].note)
        rest == VolumeCommands(active_notes, i + 1, ic, instrument, midi_channel)
    IN IF imf_channel = 0 THEN rest
       ELSE get_volume_commands(ic[imf_channel], instrument, midi_channel,
                                active_notes[i].song_event.velocity) \o rest

adjust_volume(mc, ic, song_event) ==
  LET Got(gi) ==
        IF gi.err # "" THEN Raise(gi.mc, ic, gi.err)
        ELSE Return(gi.mc, ic,
                    VolumeCommands(gi.mc[song_event.channel].active_notes, 1, ic, gi.inst,
                                   gi.mc[song_event.channel]))
  IN IF is_percussion(song_event) THEN Return(mc, ic, << >>)
     ELSE IF mc[song_event.channel].active_notes = << >> THEN Return(mc, ic, << >>)
     ELSE Got(get_event_instrument(mc, song_event))

(***************************************************************************)
(* The command buffer: add_command, add_delay, set_tempo.                  *)
(***************************************************************************)
SongTicks == 700      \* ImfSong.ticks of an "imf1" song

\* ticks_per_beat = song.ticks * (60.0 / bpm), kept as the fraction <<num, den>>
set_tempo(bpm) == <<SongTicks * 60, bpm>>

\* calc_imf_ticks rounding up instead of truncating
calc_imf_ticks_ceil(tpb, dt) == -((-(tpb[1] * dt)) \div (tpb[2] * TimeDen))

\* calc_imf_ticks(value), value being dt / TimeDen beats
calc_imf_ticks(tpb, dt) == TruncDiv(tpb[1] * dt, tpb[2] * TimeDen)

\* add_command without the comparison against the shadow
add_command_unconditional(cb, reg, value) ==
  IF cb.err # "" THEN cb
  ELSE [commands |-> Append(cb.commands, <<reg, value, 0>>),
        regs |-> [cb.regs EXCEPT ![reg] = value],
        err |-> ""]

\* a buffer state is [commands, regs, err]
add_command(cb, reg, value) ==
  IF cb.err # "" THEN cb
  ELSE IF reg > 255 \/ reg < -256 THEN [cb EXCEPT !.err = "IndexError"]
  ELSE
    LET r == IF reg >= 0 THEN reg ELSE 256 + reg
    IN IF cb.regs[r] = value /\ value # None THEN cb
       ELSE IF ~(0 <= reg /\ reg <= 255 /\ 0 <= value /\ value <= 255)
         THEN [cb EXCEPT !.err = "AssertionError"]
       ELSE [commands |-> Append(cb.commands, <<reg, value, 0>>),
             regs |-> [cb.regs EXCEPT ![reg] = value],
             err |-> ""]

RECURSIVE AddCommands(_, _, _)
AddCommands(cb, cmds, i) ==
  IF i > Len(cmds) THEN cb
  ELSE AddCommands(add_command(cb, cmds[i][1], cmds[i][2]), cmds, i + 1)

\* add_delay writing the delay on the first entry of the new group
add_delay_on_group(cmds, tpb, start_time, last_ticks, time, command_index) ==
  LET ticks == calc_imf_ticks(tpb, time - start_time)
      target == IF command_index < Len(cmds) THEN command_index + 1 ELSE command_index
  IN [commands |-> [cmds EXCEPT ![target][3] = ticks - last_ticks],
      last_command_ticks |-> ticks]

\* add_delay(time, command_index): command_index is 1-based here.
\* Result: [commands, last_command_ticks]
add_delay(cmds, tpb, start_time, last_ticks, time, command_index) ==
  LET ticks == calc_imf_ticks(tpb, time - start_time)
  IN [commands |-> [cmds EXCEPT ![command_index][3] = ticks - last_ticks],
      last_command_ticks |-> ticks]

RECURSIVE MaxTimeOf(_)
MaxTimeOf(evs) ==
  IF Len(evs) = 1 THEN evs[1].time
  ELSE LET m == MaxTimeOf(Tail(evs))
       IN IF evs[1].time > m THEN evs[1].time ELSE m


(***************************************************************************)
(* State.                                                                  *)
(***************************************************************************)
(***************************************************************************)
(* The MIDI engine (imfcreator/plugins/_midiengine.py).  A channel is a    *)
(* MidiChannelInfo record; err is the exception a call raised, "" for      *)
(* none, and once set the remaining statements of the call are skipped.    *)
(* _in_rpn_data is "None", "True" or "False".  The derived floats are kept *)
(* as fractions <<numerator, denominator>>.                                *)
(***************************************************************************)
NRPN_LSB == 98
NRPN_MSB == 99
DATA_ENTRY_MSB == 6
DATA_ENTRY_LSB == 38
BALANCE_MSB == 8
PAN_MSB == 10
RESET_ALL_CONTROLLERS == 121

\* the numbers ControllerType does not define
UndefinedControllers ==
  {3, 9, 14, 15} \cup 20..31 \cup {35, 41, 46, 47} \cup 52..63 \cup 85..90 \cup 102..119

\* int(ControllerType(value)): _create_pseudo_member_ builds the member of
\* an undefined number with int.__new__(cls), whose integer value is 0
ControllerType(value) == IF value \in UndefinedControllers THEN 0 ELSE value

\* midi.scale_14bit
scale_14bit(value) == <<value, 16383>>

\* midi.balance_14bit
balance_14bit(value) == <<value - 8192, IF value - 8192 >= 0 THEN 8191 ELSE 8192>>

PITCH_BEND_SENSITIVITY_RPN == <<0, 0>>
FINE_TUNING_RPN == <<0, 1>>
COARSE_TUNING_RPN == <<0, 2>>
TUNING_PROGRAM_SELECT_RPN == <<0, 3>>
TUNING_BANK_SELECT_RPN == <<0, 4>>
NULL_RPN == <<127, 127>>

\* the keys of MidiChannelInfo.rpn in insertion order
RpnKeys == <<PITCH_BEND_SENSITIVITY_RPN, FINE_TUNING_RPN, COARSE_TUNING_RPN,
             TUNING_PROGRAM_SELECT_RPN, TUNING_BANK_SELECT_RPN>>

\* MidiChannelInfo.calculate_msb_lsb
ChannelMsbLsb(ch, msb, lsb) == calculate_msb_lsb(ch._controllers[msb], ch._controllers[lsb])

\* MidiChannelInfo.get_msb_lsb_values for RPN_MSB and NRPN_MSB
get_msb_lsb_values(ch, controller) == <<ch._controllers[controller], ch._controllers[controller - 1]>>

\* set_rpn_value counting the LSB in 1/127 semitone, for every LSB
set_rpn_value_per_127(ch, rpn, msb, lsb) ==
  IF ch.err # "" THEN ch
  ELSE IF rpn \notin DOMAIN ch.rpn THEN [ch EXCEPT !.err = "KeyError"]
  ELSE LET Derived(c) ==
             IF rpn = PITCH_BEND_SENSITIVITY_RPN
             THEN [c EXCEPT !._pitch_bend_sensitivity =
                             <<c.rpn[rpn][1] * 127 + c.rpn[rpn][2], 127>>]
             ELSE IF rpn \in {FINE_TUNING_RPN, COARSE_TUNING_RPN}
             THEN [c EXCEPT !._tuning =
                      <<(c.rpn[COARSE_TUNING_RPN][1] - 64) * 16383
                        + calculate_msb_lsb(c.rpn[FINE_TUNING_RPN][1], c.rpn[FINE_TUNING_RPN][2]),
                        16383>>]
             ELSE c
       IN Derived([ch EXCEPT !.rpn[rpn] = <<msb, lsb>>])

set_rpn_value(ch, rpn, msb, lsb) ==
  IF ch.err # "" THEN ch
  ELSE IF rpn \notin DOMAIN ch.rpn THEN [ch EXCEPT !.err = "KeyError"]
  ELSE LET Derived(c) ==
             IF rpn = PITCH_BEND_SENSITIVITY_RPN
             THEN IF c.rpn[rpn][2] >= 100 THEN [c EXCEPT !.err = "AssertionError"]
                  ELSE [c EXCEPT !._pitch_bend_sensitivity =
                                    <<c.rpn[rpn][1] * 100 + c.rpn[rpn][2], 100>>]
             ELSE IF rpn \in {FINE_TUNING_RPN, COARSE_TUNING_RPN}
             THEN [c EXCEPT !._tuning =
                      <<(c.rpn[COARSE_TUNING_RPN][1] - 64) * 16383
                        + calculate_msb_lsb(c.rpn[FINE_TUNING_RPN][1], c.rpn[FINE_TUNING_RPN][2]),
                        16383>>]
             ELSE c
       IN Derived([ch EXCEPT !.rpn[rpn] = <<msb, lsb>>])

\* the handler _CONTROLLER_HANDLERS holds for the controller, the one of
\* RESET_ALL_CONTROLLERS excepted
ControllerHandler(ch, controller) ==
  CASE controller \in {0, 32} -> [ch EXCEPT !._bank = ChannelMsbLsb(ch, 0, 32)]
    [] controller \in {1, 33} ->
         [ch EXCEPT !._modulation_wheel = scale_14bit(ChannelMsbLsb(ch, 1, 33))]
    [] controller \in {2, 34} ->
         [ch EXCEPT !._breath_controller = scale_14bit(ChannelMsbLsb(ch, 2, 34))]
    [] controller \in {4, 36} ->
         [ch EXCEPT !._foot_controller = scale_14bit(ChannelMsbLsb(ch, 4, 36))]
    [] controller \in {5, 37} ->
         [ch EXCEPT !._portamento_time = scale_14bit(ChannelMsbLsb(ch, 5, 37))]
    [] controller \in {7, 39} -> [ch EXCEPT !._volume = scale_14bit(ChannelMsbLsb(ch, 7, 39))]
    [] controller \in {8, 40} -> [ch EXCEPT !._balance = balance_14bit(ChannelMsbLsb(ch, 8, 40))]
    [] controller \in {10, 42} -> [ch EXCEPT !._pan = balance_14bit(ChannelMsbLsb(ch, 10, 42))]
    [] controller \in {11, 43} ->
         [ch EXCEPT !._expression = scale_14bit(ChannelMsbLsb(ch, 11, 43))]
    [] controller \in {RPN_MSB, RPN_LSB} ->
         IF ch._in_rpn_data = "False" THEN [ch EXCEPT !.err = "AssertionError"]
         ELSE [ch EXCEPT !._in_rpn_data =
                 IF get_msb_lsb_values(ch, RPN_MSB) = NULL_RPN THEN "None" ELSE "True"]
    [] controller \in {NRPN_MSB, NRPN_LSB} ->
         IF ch._in_rpn_data = "True" THEN [ch EXCEPT !.err = "AssertionError"]
         ELSE [ch EXCEPT !._in_rpn_data =
                 IF get_msb_lsb_values(ch, NRPN_MSB) = NULL_RPN THEN "None" ELSE "False"]
    [] controller \in {DATA_ENTRY_MSB, DATA_ENTRY_LSB} ->
         IF ch._in_rpn_data = "True"
         THEN set_rpn_value(ch, get_msb_lsb_values(ch, RPN_MSB),
                            ch._controllers[DATA_ENTRY_MSB], ch._controllers[DATA_ENTRY_LSB])
         ELSE ch
    [] OTHER -> ch

\* set_controller_value for every controller but RESET_ALL_CONTROLLERS
SetController(ch, controller, value) ==
  IF ch.err # "" THEN ch
  ELSE IF ~(0 <= value /\ value <= 127) THEN [ch EXCEPT !.err = "AssertionError"]
  ELSE ControllerHandler([ch EXCEPT !._controllers[controller] = value], controller)

\* the statements of reset_controllers after the clearing of the controller
\* values: <<"rpn", key, msb, lsb>> and <<"cc", controller, value>>
ResetSteps ==
  [i \in 1..Len(RpnKeys) |-> <<"rpn", RpnKeys[i], 0, 0>>]
  \o << <<"cc", VOLUME_MSB, 127>>, <<"cc", BALANCE_MSB, 64>>, <<"cc", PAN_MSB, 64>>,
        <<"cc", XG_BRIGHTNESS, 127>>, <<"cc", EXPRESSION_MSB, 127>>, <<"cc", RPN_MSB, 127>>,
        <<"cc", RPN_LSB, 127>>, <<"cc", NRPN_MSB, 127>>, <<"cc", NRPN_LSB, 127>>,
        <<"rpn", PITCH_BEND_SENSITIVITY_RPN, 2, 0>>, <<"rpn", FINE_TUNING_RPN, 64, 0>>,
        <<"rpn", COARSE_TUNING_RPN, 64, 0>> >>

RECURSIVE RunSteps(_, _, _)
RunSteps(ch, steps, i) ==
  IF i > Len(steps) \/ ch.err # "" THEN ch
  ELSE RunSteps(IF steps[i][1] = "rpn"
                THEN set_rpn_value(ch, steps[i][2], steps[i][3], steps[i][4])
                ELSE SetController(ch, steps[i][2], steps[i][3]),
                steps, i + 1)

reset_controllers(ch) ==
  RunSteps([ch EXCEPT !._controllers = [cc \in 0..127 |-> 0],
                      !._bank = 0,
                      !._modulation_wheel = <<0, 1>>,
                      !._breath_controller = <<0, 1>>,
                      !._foot_controller = <<0, 1>>,
                      !._portamento_time = <<0, 1>>,
                      !._volume = <<0, 1>>,
                      !._balance = <<0, 1>>,
                      !._pan = <<0, 1>>,
                      !._expression = <<0, 1>>],
           ResetSteps, 1)

\* the controller is the integer value of the ControllerType member
set_controller_value(ch, controller, value) ==
  IF ~(0 <= value /\ value <= 127) THEN [ch EXCEPT !.err = "AssertionError"]
  ELSE IF controller = RESET_ALL_CONTROLLERS
  THEN reset_controllers([ch EXCEPT !._controllers[controller] = value])
  ELSE SetController(ch, controller, value)

\* MidiChannelInfo.__init__
MidiChannelInfo(number) ==
  reset_controllers(
    [number |-> number,
     instrument |-> None,
     pitch_bend |-> 0,
     key_pressure |-> 127,
     active_notes |-> << >>,
     _controllers |-> [cc \in 0..127 |-> 0],
     _in_rpn_data |-> "None",
     rpn |-> [key \in {RpnKeys[i] : i \in 1..Len(RpnKeys)} |-> <<0, 0>>],
     _bank |-> 0,
     _modulation_wheel |-> <<0, 1>>,
     _breath_controller |-> <<0, 1>>,
     _foot_controller |-> <<0, 1>>,
     _portamento_time |-> <<0, 1>>,
     _volume |-> <<0, 1>>,
     _balance |-> <<0, 1>>,
     _pan |-> <<0, 1>>,
     _expression |-> <<0, 1>>,
     _pitch_bend_sensitivity |-> <<0, 1>>,
     _tuning |-> <<0, 1>>,
     err |-> ""])

GM_DRUM_BANK == calculate_msb_lsb(120, 0)

XG_DRUM_BANK == calculate_msb_lsb(127, 0)

\* MidiEngine.is_percussion_channel
is_percussion_channel(chs, channel) ==
  channel = PERCUSSION_CHANNEL \/ chs[channel]._bank \in {GM_DRUM_BANK, XG_DRUM_BANK}

VARIABLES
  pc,                 \* "events": inside process_events; "done": _convert_from returned;
                      \* "failed": it raised; "loaded" / "sorted": a MidiSongFile
  error,              \* the exception _convert_from raised, "" for none
  events,             \* the song events process_events has consumed, in order
  commands,           \* song._commands: <<reg, value, delay>>
  regs,               \* the register shadow, None for unknown
  midi_channels,      \* the 16 _MidiChannelInfo
  imf_channels,       \* the _ImfChannelInfo list
  ticks_per_beat,     \* <<numerator, denominator>>
  last_command_ticks,
  tempo_start_time,   \* in 1/TimeDen beats
  groups,             \* history: <<first command, event time, event position>> of every
                      \* command group
  started,            \* history: for each OPL channel, the MIDI channel whose NoteOn
                      \* started the note it holds, None while it holds none
  call,               \* history: the arguments of the last direct add_command call
  song_events,        \* MidiSongFile.events
  loaded_events,      \* history: MidiSongFile.events as _load_file left them
  song,               \* the ImfSong settings: _filetype, title, composer, remarks, program
  fp,                 \* the bytes _save_file wrote to the file object
  _INSTRUMENTS,       \* instruments._INSTRUMENTS: key -> instrument, None for no entry
  _WARNINGS,          \* instruments._WARNINGS
  log,                \* history: the records _logging received from the instruments module
  adds,               \* history: <<key, instrument>> of every entry add() stored
  ret,                \* history: the last call made from outside and what it returned
  channels,           \* MidiEngine.channels
  engine_events,      \* history: the <<channel, controller, value>> start() has dispatched
  engine_error,        \* the exception start() raised, "" for none
  mus,                \* the MusFile being constructed: its file, read position and events
  midi_file,          \* the MidiFileReader being opened: its file, read position and events
  load,               \* the load_file call in progress: its position and locals
  open_files          \* the file objects that are open

saveVars == <<song, fp>>

catalogVars == <<_INSTRUMENTS, _WARNINGS, log, adds>>

\* the state outside the converter and the song list
engineVars == <<channels, engine_events, engine_error>>

\* the file readers
readerVars == <<mus, midi_file, load, open_files>>

moduleVars == <<saveVars, catalogVars, ret, engineVars, readerVars>>

vars == <<pc, error, events, commands, regs, midi_channels, imf_channels, ticks_per_beat,
          last_command_ticks, tempo_start_time, groups, started, call, song_events, loaded_events,
          moduleVars>>

\* ImfSong.__init__ with the default settings
DefaultSong == [filetype |-> "imf1", title |-> << >>, composer |-> << >>, remarks |-> << >>,
                program |-> << >>]

\* the instruments module as imported
NoInstruments == [key \in {} |-> None]

NoCall == [n |-> 0, op |-> "", args |-> << >>, value |-> None, err |-> ""]

\* MidiEngine.__init__
\* no MusFile under construction
NoMus == [pc |-> "idle", data |-> << >>, pos |-> 0, byte |-> 0, song_end |-> 0,
          event_time |-> 0, channel_volume |-> [ch \in 0..15 |-> 127],
          events |-> << >>, read |-> << >>, finish |-> 0, err |-> ""]

\* no load_file call made
NoLoad == [pc |-> "idle", cls |-> "", f |-> "", fp |-> None, exclusive_fp |-> FALSE,
           plugins |-> << >>, i |-> 0, instance |-> None, err |-> "", log |-> << >>]

\* no MidiFileReader opened
NoMidiFile == [pc |-> "idle", data |-> << >>, pos |-> 0, byte |-> 0, err |-> "", division |-> 0,
               track_count |-> 0, track_number |-> 0, chunk_end |-> 0,
               running_status |-> None, event_time |-> 0, events |-> << >>]

\* the caller of load_file holds one open file object
ReaderInit ==
  /\ mus = NoMus
  /\ midi_file = NoMidiFile
  /\ load = NoLoad
  /\ open_files = {"caller"}

EngineInit ==
  /\ channels = [ch \in 0..15 |-> MidiChannelInfo(ch)]
  /\ engine_events = << >>
  /\ engine_error = ""

\* nothing saved, nothing added to the instruments module
ModuleInit ==
  /\ song = DefaultSong
  /\ fp = << >>
  /\ _INSTRUMENTS = NoInstruments
  /\ _WARNINGS = << >>
  /\ log = << >>
  /\ adds = << >>
  /\ ret = NoCall
  /\ EngineInit
  /\ ReaderInit

NotStarted == [i \in 1..8 |-> None]

\* the MIDI channels the held notes come from, the handler of the event
\* leaving the OPL channels ic
Started(event, ic) ==
  [i \in 1..8 |->
     IF ic[i].last_note = None THEN None
     ELSE IF imf_channels[i].last_note = None THEN event.channel
     ELSE started[i]]

\* _convert_from up to the call of process_events
Init ==
  /\ pc = "events"
  /\ error = ""
  /\ events = << >>
  /\ commands = << <<0, 0, 0>>, <<DRUM_MSG, 0, 0>>, <<COMP_SINE_WAVE_MODE_MSG, 0, 0>> >>
  /\ regs = [r \in 0..255 |-> None]
  /\ midi_channels = [ch \in 0..15 |-> _MidiChannelInfo(ch)]
  /\ imf_channels = [i \in 1..8 |-> _ImfChannelInfo(i)]
  /\ ticks_per_beat = set_tempo(120)
  /\ last_command_ticks = 0
  /\ tempo_start_time = 0
  /\ groups = << >>
  /\ started = NotStarted
  /\ call = << >>
  /\ song_events = << >>
  /\ loaded_events = << >>
  /\ ModuleInit

(***************************************************************************)
(* One iteration of the loop of process_events.                            *)
(***************************************************************************)
IsNoteOff(event) ==
  event.type = "NOTE_OFF" \/ (event.type = "NOTE_ON" /\ event.velocity = 0)

\* the handler the event type selects: [mc, ic, cmds, err]
Dispatch(event) ==
  IF IsNoteOff(event) THEN note_off(midi_channels, imf_channels, regs, event)
  ELSE IF event.type = "NOTE_ON" THEN note_on(midi_channels, imf_channels, event)
  ELSE IF event.type = "CONTROLLER_CHANGE" THEN
    LET mc1 == [midi_channels EXCEPT ![event.channel].controllers[event.controller] = event.value]
    IN IF event.controller \in {VOLUME_MSB, EXPRESSION_MSB, XG_BRIGHTNESS}
       THEN adjust_volume(mc1, imf_channels, event)
       ELSE Return(mc1, imf_channels, << >>)
  ELSE IF event.type = "PITCH_BEND" THEN pitch_bend(midi_channels, imf_channels, event)
  ELSE IF event.type = "PROGRAM_CHANGE" THEN
    Return([midi_channels EXCEPT ![event.channel].instrument = event.program],
           imf_channels, << >>)
  ELSE Return(midi_channels, imf_channels, << >>)

ProcessEvent(event) ==
  /\ pc = "events"
  \* the event list is sorted: the event does not sort before the last one
  /\ IF events = << >> THEN TRUE ELSE ~SongEventLt(event, events[Len(events)])
  /\ \E r \in {Dispatch(event)} :
     \E cb \in {AddCommands([commands |-> commands, regs |-> regs, err |-> r.err], r.cmds, 1)} :
       LET isTempo == event.type = "META" /\ event.meta_type = SET_TEMPO
           old_commands_length == Len(commands)
           grown == Len(cb.commands) # old_commands_length
           d == add_delay(cb.commands, ticks_per_beat, tempo_start_time, last_command_ticks,
                          event.time, old_commands_length)
       IN /\ events' = Append(events, event)
          /\ midi_channels' = r.mc
          /\ imf_channels' = r.ic
          /\ started' = Started(event, r.ic)
          /\ regs' = cb.regs
          /\ ticks_per_beat' = IF isTempo THEN set_tempo(event.bpm) ELSE ticks_per_beat
          /\ tempo_start_time' = IF isTempo THEN event.time ELSE tempo_start_time
          /\ IF cb.err # ""
             THEN /\ pc' = "failed"
                  /\ error' = cb.err
                  /\ commands' = cb.commands
                  /\ UNCHANGED <<last_command_ticks, groups>>
             ELSE /\ UNCHANGED <<pc, error>>
                  /\ IF grown
                     THEN /\ commands' = d.commands
                          /\ last_command_ticks' = d.last_command_ticks
                          /\ groups' = Append(groups, <<old_commands_length + 1, event.time, Len(events) + 1>>)
                     ELSE /\ commands' = cb.commands
                          /\ UNCHANGED <<last_command_ticks, groups>>
  /\ UNCHANGED <<call, song_events, loaded_events, moduleVars>>

\* the end of the loop: the final add_delay, then _convert_from returns
EndOfEvents ==
  /\ pc = "events"
  /\ IF events = << >>
     THEN /\ pc' = "failed"
          /\ error' = "ValueError"
          /\ UNCHANGED <<commands, last_command_ticks>>
     ELSE LET d == add_delay(commands, ticks_per_beat, tempo_start_time, last_command_ticks,
                             MaxTimeOf(events), Len(commands))
          IN /\ pc' = "done"
             /\ commands' = d.commands
             /\ last_command_ticks' = d.last_command_ticks
             /\ UNCHANGED error
  /\ UNCHANGED <<events, regs, midi_channels, imf_channels, ticks_per_beat, tempo_start_time,
                 groups, started, call, song_events, loaded_events, moduleVars>>


(***************************************************************************)
(* Song family: short songs over one melodic channel and the percussion    *)
(* channel, with tempo changes and free event times.                       *)
(***************************************************************************)
\* event times: the start, the first 1/TimeDen beat and the whole beats
Times == {0, 1} \cup {TimeDen * k : k \in 1..MaxTime}

NextIndex == Len(events)

SongNoteOn ==
  \E t \in Times, cn \in {<<0, 60>>, <<PERCUSSION_CHANNEL, 35>>} :
    /\ Len(events) < MaxEvents
    /\ ProcessEvent(SongEvent(NextIndex, 0, t, "NOTE_ON", cn[1], cn[2], 100))

SongNoteOff ==
  \E t \in Times :
    /\ Len(events) < MaxEvents
    /\ ProcessEvent(SongEvent(NextIndex, 0, t, "NOTE_OFF", 0, 60, 64))

SongPitchBend ==
  \E t \in Times, amount \in {BendDen, -1} :
    /\ Len(events) < MaxEvents
    /\ ProcessEvent(SongEvent(NextIndex, 0, t, "PITCH_BEND", 0, None, amount))

SongControllerChange ==
  \E t \in Times :
    /\ Len(events) < MaxEvents
    /\ ProcessEvent(SongEvent(NextIndex, 0, t, "CONTROLLER_CHANGE", 0, VOLUME_MSB, 50))

SongProgramChange ==
  \E t \in Times :
    /\ Len(events) < MaxEvents
    /\ ProcessEvent(SongEvent(NextIndex, 0, t, "PROGRAM_CHANGE", 0, 1, None))

SongSetTempo ==
  \E t \in Times, bpm \in {60, 240} :
    /\ Len(events) < MaxEvents
    /\ ProcessEvent(SongEvent(NextIndex, 0, t, "META", None, SET_TEMPO, bpm))

Next ==
  \/ SongNoteOn
  \/ SongNoteOff
  \/ SongPitchBend
  \/ SongControllerChange
  \/ SongProgramChange
  \/ SongSetTempo
  \/ EndOfEvents

Spec == Init /\ [][Next]_vars

(***************************************************************************)
(* Polyphony family: one melodic channel striking ascending notes, each    *)
(* event as early as the event order allows.                               *)
(***************************************************************************)
PolyBaseNote == 60

\* the earliest time at which an event of this type on channel 0 can follow
EarliestTime(type) ==
  IF events = << >> THEN 0
  ELSE LET last == events[Len(events)]
           probe == SongEvent(NextIndex, 0, last.time, type, 0, None, None)
       IN IF SongEventLt(probe, last) THEN last.time + 1 ELSE last.time

NoteOnCount == Cardinality({i \in 1..Len(events) : events[i].type = "NOTE_ON"})

PolyPitchBend ==
  /\ Len(events) < MaxPolyEvents
  /\ midi_channels[0].pitch_bend # 2
  /\ ProcessEvent(SongEvent(NextIndex, 0, EarliestTime("PITCH_BEND"), "PITCH_BEND", 0, None, 2))

PolyProgramChange ==
  \E program \in {0, 1} :
    /\ Len(events) < MaxPolyEvents
    /\ midi_channels[0].instrument # program
    /\ ProcessEvent(SongEvent(NextIndex, 0, EarliestTime("PROGRAM_CHANGE"), "PROGRAM_CHANGE",
                              0, program, None))

PolyNoteOn ==
  /\ Len(events) < MaxPolyEvents
  /\ ProcessEvent(SongEvent(NextIndex, 0, EarliestTime("NOTE_ON"), "NOTE_ON", 0,
                            PolyBaseNote + NoteOnCount, 100))

PolyNoteOff ==
  /\ Len(events) < MaxPolyEvents
  /\ midi_channels[0].active_notes # << >>
  /\ ProcessEvent(SongEvent(NextIndex, 0, EarliestTime("NOTE_OFF"), "NOTE_OFF", 0,
                            midi_channels[0].active_notes[1].song_event.note, 64))

NextPoly ==
  \/ PolyPitchBend
  \/ PolyProgramChange
  \/ PolyNoteOn
  \/ PolyNoteOff
  \/ EndOfEvents

SpecPoly == Init /\ [][NextPoly]_vars


(***************************************************************************)
(* add_command family: direct calls of add_command on the buffer of a      *)
(* running conversion.                                                     *)
(***************************************************************************)
AddCommandCall ==
  \E reg \in {0, FREQ_MSG + 1, BLOCK_MSG + 1, DRUM_MSG}, value \in {0, 1, 255} :
    /\ pc = "events"
    /\ Len(call) < MaxCalls
    /\ \E cb \in {add_command([commands |-> commands, regs |-> regs, err |-> ""], reg, value)} :
         /\ commands' = cb.commands
         /\ regs' = cb.regs
         /\ error' = cb.err
         /\ pc' = IF cb.err # "" THEN "failed" ELSE pc
    /\ call' = Append(call, <<reg, value>>)
    /\ UNCHANGED <<events, midi_channels, imf_channels, ticks_per_beat, last_command_ticks,
                   tempo_start_time, groups, started, song_events, loaded_events, moduleVars>>

NextAddCommand == AddCommandCall

SpecAddCommand == Init /\ [][NextAddCommand]_vars

(***************************************************************************)
(* Sort family: a MidiSongFile whose reader left the events in any order,  *)
(* then MidiSongFile.sort().                                               *)
(***************************************************************************)
\* the events a reader may have produced
SortEvents ==
  {SongEvent(ix, tr, 0, ty[1], ty[2], 60, 100) :
     ix \in {0, 1}, tr \in {0, 1},
     ty \in {<<"PROGRAM_CHANGE", 0>>, <<"NOTE_ON", 0>>, <<"NOTE_ON", 1>>}}
  \cup {SongEvent(ix, 0, 0, "META", None, END_OF_TRACK, None) : ix \in {0, 1}}
  \cup {SongEvent(0, 0, 1, "META", None, SET_TEMPO, 120)}

InitSort ==
  /\ pc = "loaded"
  /\ error = ""
  /\ events = << >>
  /\ commands = << >>
  /\ regs = [r \in 0..255 |-> None]
  /\ midi_channels = [ch \in 0..15 |-> _MidiChannelInfo(ch)]
  /\ imf_channels = [i \in 1..8 |-> _ImfChannelInfo(i)]
  /\ ticks_per_beat = <<0, 1>>
  /\ last_command_ticks = 0
  /\ tempo_start_time = 0
  /\ groups = << >>
  /\ started = NotStarted
  /\ call = << >>
  /\ loaded_events \in UNION {[1..n -> SortEvents] : n \in 0..MaxSortLen}
  /\ song_events = loaded_events
  /\ ModuleInit

\* sorted() places an element behind every element that is not greater than it
RECURSIVE InsertSorted(_, _, _)
InsertSorted(sorted, event, i) ==
  IF i > Len(sorted) THEN Append(sorted, event)
  ELSE IF SongEventLt(event, sorted[i])
    THEN SubSeq(sorted, 1, i - 1) \o <<event>> \o SubSeq(sorted, i, Len(sorted))
  ELSE InsertSorted(sorted, event, i + 1)

RECURSIVE Sorted(_, _)
Sorted(evs, n) ==
  IF n = 0 THEN << >> ELSE InsertSorted(Sorted(evs, n - 1), evs[n], 1)

\* MidiSongFile.sort()
Sort ==
  /\ pc = "loaded"
  /\ pc' = "sorted"
  /\ \E ordered \in {Sorted(song_events, Len(song_events))} :
       song_events' = [index \in 1..Len(ordered) |-> [ordered[index] EXCEPT !.index = index - 1]]
  /\ UNCHANGED <<error, events, commands, regs, midi_channels, imf_channels, ticks_per_beat,
                 last_command_ticks, tempo_start_time, groups, started, call, loaded_events, moduleVars>>

NextSort == Sort

SpecSort == InitSort /\ [][NextSort]_vars

(***************************************************************************)
(* The tempo the converter has in force after events[1..k]:                *)
(* <<ticks_per_beat, tempo_start_time>>.                                   *)
(***************************************************************************)
IsSetTempo(event) == event.type = "META" /\ event.meta_type = SET_TEMPO

RECURSIVE TempoAfter(_)
TempoAfter(k) ==
  IF k = 0 THEN << <<700 * 60, 120>>, 0 >>
  ELSE IF IsSetTempo(events[k]) THEN << <<700 * 60, events[k].bpm>>, events[k].time >>
  ELSE TempoAfter(k - 1)

\* floor(tpb * dt / TimeDen), tpb a fraction
FloorTicks(tpb, dt) == (tpb[1] * dt) \div (tpb[2] * TimeDen)

RECURSIVE SumDelays(_, _)
SumDelays(cmds, n) == IF n = 0 THEN 0 ELSE cmds[n][3] + SumDelays(cmds, n - 1)

LastTime == IF events = << >> THEN 0 ELSE events[Len(events)].time

(***************************************************************************)
(* C1.  As stated: after a conversion the first three entries of the       *)
(* command buffer are (0x00,0,0), (0xBD,0,0), (0x08,0,0), delays included. *)
(***************************************************************************)
C1_AsStated ==
  pc = "done" => SubSeq(commands, 1, 3) = << <<0, 0, 0>>, <<189, 0, 0>>, <<8, 0, 0>> >>

\* the delay add_delay leaves on the third entry
C1_ThirdDelay ==
  IF groups # << >>
  THEN LET tp == TempoAfter(groups[1][3])
       IN FloorTicks(tp[1], groups[1][2] - tp[2])
  ELSE IF pc = "done"
  THEN LET tp == TempoAfter(Len(events))
       IN FloorTicks(tp[1], LastTime - tp[2])
  ELSE 0

\* C1 (amended): the buffer always starts with the registers and values
\* (0x00,0), (0xBD,0), (0x08,0); the first two delays are 0, and the third
\* entry carries the wait before the first command group (or, when no event
\* produced a command, the final delay): the ticks from the last tempo
\* change to that event, 0 only while nothing has been written after it.
C1_InitialCommands ==
  /\ Len(commands) >= 3
  /\ commands[1] = <<0, 0, 0>>
  /\ commands[2] = <<189, 0, 0>>
  /\ commands[3] = <<8, 0, C1_ThirdDelay>>
  /\ groups # << >> => groups[1][1] = 4

C1_Witness ==
  /\ pc = "done"
  /\ groups # << >>
  /\ groups[1][2] > 0
  /\ commands[3][3] > 0

(***************************************************************************)
(* C3.  After any conversion, for every register R in 0..255 the shadow    *)
(* of R equals the value of the last command in the buffer that targets R, *)
(* and is unknown only if no command targets R (the registers 0x00, 0xBD   *)
(* and 0x08 of the initial commands included).                             *)
(***************************************************************************)
RECURSIVE C3_LastValue(_, _, _)
C3_LastValue(cmds, R, n) ==
  IF n = 0 THEN None
  ELSE IF cmds[n][1] = R THEN cmds[n][2]
  ELSE C3_LastValue(cmds, R, n - 1)

C3_ShadowAgrees ==
  pc = "done" => \A R \in 0..255 : regs[R] = C3_LastValue(commands, R, Len(commands))

(***************************************************************************)
(* C4.  In any reachable converter state find_imf_channel(instr, note)     *)
(* returns the first OPL channel whose instrument is instr and whose       *)
(* last_note is None if there is one, otherwise the first OPL channel      *)
(* whose last_note is None, otherwise None, and then the NoteOn emits no   *)
(* commands; it never returns a channel whose last_note is not None.       *)
(***************************************************************************)
C4_Min(S) == CHOOSE i \in S : \A j \in S : i <= j

\* the channel the claim describes, 0 for None
C4_Expected(instr) ==
  LET same == {i \in 1..Len(imf_channels) :
                 imf_channels[i].instrument = instr /\ imf_channels[i].last_note = None}
      free == {i \in 1..Len(imf_channels) : imf_channels[i].last_note = None}
  IN IF same # {} THEN C4_Min(same) ELSE IF free # {} THEN C4_Min(free) ELSE 0

C4_IsNoteOn(event) == event.type = "NOTE_ON" /\ event.velocity > 0 /\ event.channel # 9

C4_FindChannel ==
  [][/\ \A instr \in 1..Len(Instruments) :
          /\ find_imf_channel(imf_channels, instr, 60) = C4_Expected(instr)
          /\ C4_Expected(instr) # 0 => imf_channels[C4_Expected(instr)].last_note = None
     /\ (events' # events /\ C4_IsNoteOn(events'[Len(events')])) =>
          LET event == events'[Len(events')]
              \* the instrument and the adjusted note of the event
              instr == Catalog[<<0, 0, midi_channels'[event.channel].instrument>>]
              note == event.note + Instruments[instr].note_offset
              channel == C4_Expected(instr)
          IN IF channel = 0
             THEN commands' = commands /\ imf_channels' = imf_channels
             ELSE /\ imf_channels'[channel].last_note = note
                  /\ imf_channels'[channel].instrument = instr
                  /\ \A other \in 1..Len(imf_channels) :
                       other # channel => imf_channels'[other] = imf_channels[other]
    ]_vars

\* a note was placed on channel 2, already set to its instrument, although
\* channel 1 was free
C4_Witness ==
  /\ events # << >>
  /\ events[Len(events)].type = "NOTE_ON"
  /\ error = ""
  /\ imf_channels[1].last_note = None
  /\ imf_channels[1].instrument = 1
  /\ imf_channels[2].instrument = 2
  /\ imf_channels[2].last_note = events[Len(events)].note + 12

(***************************************************************************)
(* C5.  As stated: notes are allocated over the nine OPL channels 0..8,    *)
(* the first note of a conversion going to OPL channel 0 (key-on register  *)
(* 0xB0) and nine simultaneous notes keying on nine distinct registers in  *)
(* 0xB0..0xB8; only a tenth simultaneous note is dropped.                  *)
(***************************************************************************)
\* the positions of the key-on writes in the buffer, in order
C5_KeyOns ==
  SelectSeq([i \in 1..Len(commands) |-> commands[i]],
            LAMBDA cmd : cmd[1] \in 176..184 /\ (cmd[2] \div 32) % 2 = 1)

C5_NoNoteOff == \A k \in 1..Len(events) : events[k].type # "NOTE_OFF"

\* the NoteOn events the converter has completed
C5_NotesPlayed ==
  NoteOnCount
    - (IF events # << >> /\ error # "" /\ events[Len(events)].type = "NOTE_ON" THEN 1 ELSE 0)

C6_KeyOnAfterFreq ==
  [][\A i \in (Len(commands) + 1)..Len(commands') :
       (commands'[i][1] \in 176..184 /\ (commands'[i][2] \div 32) % 2 = 1) =>
         LET c == commands'[i][1] - 176
             \* the F-number and block of the note OPL channel c holds
             bf == get_block_and_freq(
                     imf_channels'[c].last_note,
                     midi_channels'[events'[Len(events')].channel].scaled_pitch_bend)
         IN /\ c \in 1..Len(imf_channels)
            /\ imf_channels'[c].last_note # None
            /\ bf.err = ""
            /\ bf.block \in 0..7
            /\ bf.freq \in 0..1023
            /\ commands'[i][2] = 32 + bf.block * 4 + (bf.freq \div 256)
            /\ regs'[160 + c] = bf.freq % 256
            /\ regs[160 + c] # regs'[160 + c] =>
                 \E j \in (Len(commands) + 1)..(i - 1) :
                   /\ commands'[j][1] = 160 + c
                   /\ commands'[j][2] = bf.freq % 256
            /\ \A j \in (i + 1)..Len(commands') : commands'[j][1] # 160 + c
    ]_vars

\* a pitch bend re-tuned a sounding note: its A0 / B0 pair was appended
C6_Witness ==
  /\ Len(events) >= 3
  /\ events[Len(events)].type = "PITCH_BEND"
  /\ groups # << >>
  /\ groups[Len(groups)][3] = Len(events)
  /\ Len(commands) >= groups[Len(groups)][1] + 1
  /\ commands[Len(commands)][1] \in 176..184
  /\ (commands[Len(commands)][2] \div 32) % 2 = 1
  /\ commands[Len(commands) - 1][1] = commands[Len(commands)][1] - 16

(***************************************************************************)
(* C7.  With no SetTempo after time 0: the delays of the entries before    *)
(* the first command of the group emitted for an event at time t sum to    *)
(* floor(ticks_per_beat * t), and after the final add_delay the delays of  *)
(* the whole buffer sum to floor(ticks_per_beat * t_last); one beat at     *)
(* 120 BPM and 700 Hz is 350 ticks.                                        *)
(***************************************************************************)
C7_NoLateTempo == \A k \in 1..Len(events) : IsSetTempo(events[k]) => events[k].time = 0

C7_Delays ==
  C7_NoLateTempo =>
    /\ \A g \in 1..Len(groups) :
         SumDelays(commands, groups[g][1] - 1)
           = FloorTicks(TempoAfter(groups[g][3])[1], groups[g][2])
    /\ pc = "done" =>
         SumDelays(commands, Len(commands)) = FloorTicks(TempoAfter(Len(events))[1], LastTime)
    /\ (pc = "done" /\ LastTime = TimeDen /\ \A k \in 1..Len(events) : ~IsSetTempo(events[k]))
         => SumDelays(commands, Len(commands)) = 350

\* two command groups at different times, the first on a fractional tick
C7_Witness ==
  /\ pc = "done"
  /\ C7_NoLateTempo
  /\ Len(groups) >= 2
  /\ groups[1][2] > 0
  /\ groups[2][2] > groups[1][2]
  /\ (TempoAfter(Len(events))[1][1] * groups[1][2])
       % (TempoAfter(Len(events))[1][2] * TimeDen) # 0
  /\ SumDelays(commands, Len(commands)) > SumDelays(commands, groups[1][1] - 1)

(***************************************************************************)
(* C8.  A SetTempo at time t0 keeps the tick clock continuous: the ticks   *)
(* counted up to t0 are carried over as tempo_start_ticks, so that         *)
(* current_ticks(t) = floor(new_ticks_per_beat * (t - t0)) + ticks(t0),    *)
(* and the delays of the buffer still sum to the tick position of the last *)
(* event after any number of tempo changes.                                *)
(***************************************************************************)
\* the clock the claim describes, after events[1..k]
RECURSIVE C8_Clock(_)
C8_Clock(k) ==
  IF k = 0 THEN [tpb |-> <<700 * 60, 120>>, tempo_start_time |-> 0, tempo_start_ticks |-> 0]
  ELSE IF IsSetTempo(events[k])
    THEN [tpb |-> <<700 * 60, events[k].bpm>>,
          tempo_start_time |-> events[k].time,
          tempo_start_ticks |->
            FloorTicks(C8_Clock(k - 1).tpb, events[k].time - C8_Clock(k - 1).tempo_start_time)
              + C8_Clock(k - 1).tempo_start_ticks]
  ELSE C8_Clock(k - 1)

C8_CurrentTicks(k, t) ==
  FloorTicks(C8_Clock(k).tpb, t - C8_Clock(k).tempo_start_time) + C8_Clock(k).tempo_start_ticks

C8_ContinuousClock ==
  /\ \A g \in 1..Len(groups) :
       SumDelays(commands, groups[g][1] - 1) = C8_CurrentTicks(groups[g][3], groups[g][2])
  /\ pc = "done" => SumDelays(commands, Len(commands)) = C8_CurrentTicks(Len(events), LastTime)

(***************************************************************************)
(* C9.  The converter never fails mid-stream: for every time-sorted event  *)
(* list, a NoteOff without a matching active note and the empty list       *)
(* included, the conversion processes every event and returns a buffer     *)
(* without raising.                                                        *)
(***************************************************************************)
C9_NeverFails == pc # "failed"

(***************************************************************************)
(* C2.  add_command(reg, value) appends nothing and leaves the buffer and  *)
(* the shadow unchanged when shadow[reg] = value; otherwise it appends     *)
(* exactly (reg, value, 0) and sets shadow[reg] = value.  The same call    *)
(* twice in a row therefore adds at most one entry.                        *)
(***************************************************************************)
C2_AddCommand ==
  [][call' # call =>
       LET reg == call'[Len(call')][1]
           value == call'[Len(call')][2]
       IN /\ IF regs[reg] = value
             THEN commands' = commands /\ regs' = regs
             ELSE /\ commands' = Append(commands, <<reg, value, 0>>)
                  /\ regs' = [r \in 0..255 |-> IF r = reg THEN value ELSE regs[r]]
          /\ (call # << >> /\ call[Len(call)] = <<reg, value>>) => commands' = commands
    ]_vars

\* the same call made twice: the first appended, the second did not
C2_Witness ==
  /\ Len(call) = 2
  /\ call[1] = call[2]
  /\ Len(commands) = 4
  /\ commands[4] = <<call[1][1], call[1][2], 0>>

(***************************************************************************)
(* C10.  MidiSongFile.sort() leaves a permutation of the loaded events in  *)
(* non-decreasing order of the key (time, type priority, channel with      *)
(* non-channel events as -1, track, original index); __lt__ and __eq__ are *)
(* that key's strict total order (exactly one of a<b, a==b, b<a; < is      *)
(* transitive); afterwards events[i].index = i.                            *)
(***************************************************************************)
C10_Priority(type) ==
  CASE type = "PROGRAM_CHANGE" -> 1
    [] type = "CONTROLLER_CHANGE" -> 2
    [] type = "NOTE_OFF" -> 10
    [] type = "PITCH_BEND" -> 30
    [] type = "POLYPHONIC_KEY_PRESSURE" -> 40
    [] type = "CHANNEL_KEY_PRESSURE" -> 50
    [] type = "NOTE_ON" -> 100
    [] OTHER -> 0

C10_Key(e) ==
  <<e.time, C10_Priority(e.type), IF e.channel = None THEN -1 ELSE e.channel, e.track, e.index>>

RECURSIVE C10_KeyLess(_, _, _)
C10_KeyLess(a, b, i) ==
  IF i > Len(a) THEN FALSE
  ELSE IF a[i] < b[i] THEN TRUE
  ELSE IF a[i] > b[i] THEN FALSE
  ELSE C10_KeyLess(a, b, i + 1)

C10_Permutations(n) == {f \in [1..n -> 1..n] : \A i, j \in 1..n : i # j => f[i] # f[j]}

C10_Loaded == {loaded_events[i] : i \in 1..Len(loaded_events)}

C10_Sort ==
  /\ \A a, b \in C10_Loaded :
       /\ SongEventLt(a, b) <=> C10_KeyLess(C10_Key(a), C10_Key(b), 1)
       /\ SongEventEq(a, b) <=> C10_Key(a) = C10_Key(b)
       /\ Cardinality({k \in 1..3 : CASE k = 1 -> SongEventLt(a, b)
                                      [] k = 2 -> SongEventEq(a, b)
                                      [] k = 3 -> SongEventLt(b, a)}) = 1
  /\ \A a, b, c \in C10_Loaded : SongEventLt(a, b) /\ SongEventLt(b, c) => SongEventLt(a, c)
  /\ pc = "sorted" =>
       /\ Len(song_events) = Len(loaded_events)
       /\ \A i \in 1..Len(song_events) : song_events[i].index = i - 1
       /\ \E f \in C10_Permutations(Len(loaded_events)) :
            /\ \A i \in 1..Len(song_events) :
                 song_events[i] = [loaded_events[f[i]] EXCEPT !.index = i - 1]
            /\ \A i \in 1..(Len(song_events) - 1) :
                 ~C10_KeyLess(C10_Key(loaded_events[f[i + 1]]), C10_Key(loaded_events[f[i]]), 1)

\* three events loaded out of order, tracks and indexes disagreeing, then sorted
C10_Witness ==
  /\ pc = "sorted"
  /\ Len(loaded_events) = 3
  /\ SongEventLt(loaded_events[3], loaded_events[1])
  /\ loaded_events[1].type = loaded_events[2].type
  /\ loaded_events[1].channel = loaded_events[2].channel
  /\ loaded_events[1].track > loaded_events[2].track
  /\ loaded_events[1].index < loaded_events[2].index
  /\ song_events # loaded_events

(***************************************************************************)
(* Event lists for the ordering of types at one time stamp: each of the    *)
(* five channel messages on two (channel, track, index) placements that    *)
(* disagree with the type priority, and one later event.                   *)
(***************************************************************************)
SortTypeEvents ==
  {SongEvent(p[3], p[2], 0, type, p[1], 60, 100) :
     p \in {<<0, 0, 0>>, <<1, 1, 1>>},
     type \in {"PROGRAM_CHANGE", "CONTROLLER_CHANGE", "PITCH_BEND", "NOTE_OFF", "NOTE_ON"}}
  \cup {SongEvent(0, 0, 1, "PROGRAM_CHANGE", 0, 60, 100)}

InitSortTypes ==
  /\ pc = "loaded"
  /\ error = ""
  /\ events = << >>
  /\ commands = << >>
  /\ regs = [r \in 0..255 |-> None]
  /\ midi_channels = [ch \in 0..15 |-> _MidiChannelInfo(ch)]
  /\ imf_channels = [i \in 1..8 |-> _ImfChannelInfo(i)]
  /\ ticks_per_beat = <<0, 1>>
  /\ last_command_ticks = 0
  /\ tempo_start_time = 0
  /\ groups = << >>
  /\ started = NotStarted
  /\ call = << >>
  /\ loaded_events \in UNION {[1..n -> SortTypeEvents] : n \in 0..MaxSortLen}
  /\ song_events = loaded_events
  /\ ModuleInit

SpecSortTypes == InitSortTypes /\ [][NextSort]_vars

\* i sits before j in the sorted sequence, both at one time, with these types
C11_Before(first, second) ==
  \A i, j \in 1..Len(song_events) :
    (/\ song_events[i].time = song_events[j].time
     /\ song_events[i].type = first
     /\ song_events[j].type = second) => i < j

(***************************************************************************)
(* C11.  As stated: in the sequence produced by sort(), among events that  *)
(* share the same time every ProgramChange precedes every                  *)
(* ControllerChange, every ControllerChange precedes every PitchBend,      *)
(* every PitchBend precedes every NoteOff, and every NoteOff precedes      *)
(* every NoteOn, whatever their channels, tracks and original indices.     *)
(***************************************************************************)
C11_AsStated ==
  pc = "sorted" =>
    /\ C11_Before("PROGRAM_CHANGE", "CONTROLLER_CHANGE")
    /\ C11_Before("CONTROLLER_CHANGE", "PITCH_BEND")
    /\ C11_Before("PITCH_BEND", "NOTE_OFF")
    /\ C11_Before("NOTE_OFF", "NOTE_ON")

\* C11 (amended): in the sequence produced by sort(), among events that
\* share the same time every ProgramChange precedes every ControllerChange,
\* every ControllerChange precedes every NoteOff, every NoteOff precedes
\* every PitchBend, and every PitchBend precedes every NoteOn, whatever
\* their channels, tracks and original indices.
C11_TypeOrder ==
  pc = "sorted" =>
    /\ C11_Before("PROGRAM_CHANGE", "CONTROLLER_CHANGE")
    /\ C11_Before("CONTROLLER_CHANGE", "NOTE_OFF")
    /\ C11_Before("NOTE_OFF", "PITCH_BEND")
    /\ C11_Before("PITCH_BEND", "NOTE_ON")

\* a PitchBend loaded before a NoteOff of the same time on a lower channel,
\* track and index, and a NoteOn loaded first: sort() reorders all three
C11_Witness ==
  /\ pc = "sorted"
  /\ Len(loaded_events) = 3
  /\ loaded_events[1].type = "NOTE_ON" /\ loaded_events[1].channel = 0
  /\ loaded_events[2].type = "PITCH_BEND" /\ loaded_events[2].channel = 0
  /\ loaded_events[3].type = "NOTE_OFF" /\ loaded_events[3].channel = 1
  /\ loaded_events[3].time = loaded_events[2].time
  /\ song_events[1].type = "NOTE_OFF"
  /\ song_events[2].type = "PITCH_BEND"
  /\ song_events[3].type = "NOTE_ON"

(***************************************************************************)
(* ImfSong._save_file.  The file is the sequence of bytes written.         *)
(***************************************************************************)
_MAXIMUM_COMMAND_COUNT == 65535 \div 4

_TAG_BYTE == 26

\* struct.pack("<H", value)
PackH(value) == <<value % 256, (value \div 256) % 256>>

\* struct.pack("<BBH", *command), byte j of 0..3
PackBBH(command, j) ==
  CASE j = 0 -> command[1]
    [] j = 1 -> command[2]
    [] j = 2 -> command[3] % 256
    [] j = 3 -> (command[3] \div 256) % 256

\* the writes of the loop over self._commands[0:command_count]
PackCommands(cmds, command_count) ==
  [k \in 1..(4 * command_count) |-> PackBBH(cmds[(k - 1) \div 4 + 1], (k - 1) % 4)]

\* bytearray(text, "ascii")[0:n]
Truncated(text, n) == IF Len(text) > n THEN SubSeq(text, 1, n) ELSE text

\* the unofficial tag of type 1 files
TagBlock(s) ==
  IF s.filetype = "imf1" /\ (s.title # << >> \/ s.composer # << >> \/ s.remarks # << >>
                             \/ s.program # << >>)
  THEN <<_TAG_BYTE>> \o Truncated(s.title, 255) \o <<0>>
       \o Truncated(s.composer, 255) \o <<0>>
       \o Truncated(s.remarks, 255) \o <<0>>
       \o Truncated(s.program \o [i \in 1..8 |-> 0], 8) \o <<0>>
  ELSE << >>

\* _save_file without the limit of type 1
_save_file_unlimited(s, cmds) ==
  (IF s.filetype = "imf1" THEN PackH(Len(cmds) * 4) ELSE << >>)
  \o PackCommands(cmds, Len(cmds)) \o TagBlock(s)

_save_file(s, cmds) ==
  LET Write(command_count) ==
        (IF s.filetype = "imf1" THEN PackH(command_count * 4) ELSE << >>)
        \o PackCommands(cmds, command_count) \o TagBlock(s)
  IN Write(IF s.filetype = "imf1" /\ Len(cmds) > _MAXIMUM_COMMAND_COUNT
           THEN _MAXIMUM_COMMAND_COUNT ELSE Len(cmds))

\* the lengths of the buffers saved
CommandCounts == {0, 1, 2, 3, _MAXIMUM_COMMAND_COUNT, _MAXIMUM_COMMAND_COUNT + 1, 20000}

\* a buffer of n commands, no two of the first 65536 alike
Buffer(n) == [i \in 1..n |-> <<i % 256, (i \div 256) % 256, (i * 257) % 65536>>]

\* ImfSong.__init__: the program defaults to PyImf when another tag is set
SongSettings ==
  {[filetype |-> ft, title |-> ti, composer |-> co, remarks |-> re,
    program |-> IF pr # << >> THEN pr
                ELSE IF ti # << >> \/ co # << >> \/ re # << >> THEN <<80, 121, 73, 109, 102>>
                ELSE << >>] :
     ft \in {"imf0", "imf1"}, ti \in {<< >>, <<84>>}, co \in {<< >>, <<67>>},
     re \in {<< >>}, pr \in {<< >>, <<73, 77, 70, 67, 114, 101, 97, 116, 111, 114>>}}

\* a converted song about to be saved
InitSave ==
  /\ pc = "done"
  /\ error = ""
  /\ events = << >>
  /\ commands \in {Buffer(n) : n \in CommandCounts}
  /\ regs = [r \in 0..255 |-> None]
  /\ midi_channels = [ch \in 0..15 |-> _MidiChannelInfo(ch)]
  /\ imf_channels = [i \in 1..8 |-> _ImfChannelInfo(i)]
  /\ ticks_per_beat = set_tempo(120)
  /\ last_command_ticks = 0
  /\ tempo_start_time = 0
  /\ groups = << >>
  /\ started = NotStarted
  /\ call = << >>
  /\ song_events = << >>
  /\ loaded_events = << >>
  /\ song \in SongSettings
  /\ fp = << >>
  /\ _INSTRUMENTS = NoInstruments
  /\ _WARNINGS = << >>
  /\ log = << >>
  /\ adds = << >>
  /\ ret = NoCall
  /\ EngineInit
  /\ ReaderInit

SaveFile ==
  /\ pc = "done"
  /\ pc' = "saved"
  /\ fp' = _save_file(song, commands)
  /\ UNCHANGED <<error, events, commands, regs, midi_channels, imf_channels, ticks_per_beat,
                 last_command_ticks, tempo_start_time, groups, started, call, song_events,
                 loaded_events, song, catalogVars, ret, engineVars, readerVars>>

NextSave == SaveFile

SpecSave == InitSave /\ [][NextSave]_vars

C12_Min(a, b) == IF a < b THEN a ELSE b

\* the file is a prefix, then records four-byte records equal to the first
\* commands of the buffer, then the tag
C12_Layout(tag, records) ==
  /\ Len(fp) = 2 + 4 * records + Len(tag)
  /\ records = C12_Min(Len(commands), 16383)
  /\ \A i \in 1..records :
       /\ fp[4 * i - 1] = commands[i][1]
       /\ fp[4 * i] = commands[i][2]
       /\ fp[4 * i + 1] + 256 * fp[4 * i + 2] = commands[i][3]
  /\ fp[1] + 256 * fp[2] = 4 * records
  /\ Len(commands) > 16383 => fp[1] = 252 /\ fp[2] = 255
  /\ \A k \in 1..Len(tag) : fp[2 + 4 * records + k] = tag[k]

(***************************************************************************)
(* C12.  For file type imf1, _save_file writes min(command_count, 16383)   *)
(* four-byte command records, the first ones of the buffer in buffer       *)
(* order, and the u16 little-endian length prefix equals exactly 4 times   *)
(* the number of records written (65532 for every buffer longer than       *)
(* 16383 commands, e.g. 20000).                                            *)
(***************************************************************************)
C12_Type1Length ==
  (pc = "saved" /\ song.filetype = "imf1") =>
    \E tag \in {TagBlock(song)} : C12_Layout(tag, (Len(fp) - 2 - Len(tag)) \div 4)

\* a buffer of 20000 commands saved as type 1
C12_Witness ==
  /\ pc = "saved"
  /\ song.filetype = "imf1"
  /\ Len(commands) = 20000
  /\ fp[1] + 256 * fp[2] = 65532
  /\ Len(fp) = 65534

(***************************************************************************)
(* The instrument manager (imfcreator/instruments.py).  A catalog state    *)
(* is [I, W, log, adds, err]: _INSTRUMENTS, _WARNINGS, the log records,    *)
(* the entries stored so far and the exception raised, "" for none.  A log *)
(* record is <<level, message, key in the message, key asked for>>.        *)
(***************************************************************************)
MaxCatalogCalls == 3

CatalogState == [I |-> _INSTRUMENTS, W |-> _WARNINGS, log |-> log, adds |-> adds, err |-> ""]

InSeq(x, seq) == \E i \in 1..Len(seq) : seq[i] = x

\* add() that keeps the entry a key already has
add_keep_first(c, inst_type, bank, program, adlib_instrument) ==
  LET key == <<inst_type, bank, program>>
  IN IF ~_validate_args(inst_type, bank, program) THEN [c EXCEPT !.err = "ValueError"]
     ELSE IF key \in DOMAIN c.I
       THEN [c EXCEPT !.log = Append(c.log, <<"info", "Replacing instrument", key, key>>),
                      !.adds = Append(c.adds, <<key, adlib_instrument>>)]
     ELSE [c EXCEPT !.I = (key :> adlib_instrument) @@ c.I,
                    !.adds = Append(c.adds, <<key, adlib_instrument>>)]

add(c, inst_type, bank, program, adlib_instrument) ==
  LET key == <<inst_type, bank, program>>
  IN IF ~_validate_args(inst_type, bank, program) THEN [c EXCEPT !.err = "ValueError"]
     ELSE [c EXCEPT !.log = IF key \in DOMAIN c.I
                            THEN Append(c.log, <<"info", "Replacing instrument", key, key>>)
                            ELSE c.log,
                    !.I = (key :> adlib_instrument) @@ c.I,
                    !.adds = Append(c.adds, <<key, adlib_instrument>>)]

count(c) == Cardinality(DOMAIN c.I)

\* the loop of update() from item i on; instruments lists the dictionary's
\* items <<key, instrument>> in iteration order
RECURSIVE UpdateFrom(_, _, _, _)
UpdateFrom(c, instruments, bank_offset, i) ==
  IF i > Len(instruments) \/ c.err # "" THEN c
  ELSE UpdateFrom(add(c, instruments[i][1][1], instruments[i][1][2] + bank_offset,
                      instruments[i][1][3], instruments[i][2]),
                  instruments, bank_offset, i + 1)

update(c, instruments, bank_offset) ==
  IF instruments = << >> THEN c
  ELSE LET Total(d) ==
             IF d.err # "" THEN d
             ELSE [d EXCEPT !.log = Append(d.log, <<"info", "Total instruments loaded", count(d), None>>)]
       IN Total(UpdateFrom(c, instruments, bank_offset, 1))

\* a file is what the two load_file calls make of it: the instruments of
\* the InstrumentFile or of the MidiSongFile, or the exception raised
add_file(c, f, bank_offset) ==
  IF f.instrument_file.err = ""
  THEN update(c, f.instrument_file.instruments, bank_offset)
  ELSE IF f.instrument_file.err # "ValueError" THEN [c EXCEPT !.err = f.instrument_file.err]
  ELSE IF f.song_file.err = ""
  THEN update(c, f.song_file.instruments, bank_offset)
  ELSE [c EXCEPT !.err = f.song_file.err]

\* get() that warns on every miss; [c, value]
get_warn_always(c, inst_type, bank, program) ==
  IF ~_validate_args(inst_type, bank, program)
  THEN [c |-> [c EXCEPT !.err = "ValueError"], value |-> None]
  ELSE LET asked == <<inst_type, bank, program>>
           Lookup(d, key) ==
             IF key \in DOMAIN d.I THEN [c |-> d, value |-> d.I[key]]
             ELSE [c |-> [d EXCEPT !.W = Append(d.W, key),
                                   !.log = Append(d.log, <<"warning", "Could not find", key, asked>>)],
                   value |-> None]
       IN IF bank > 0 /\ asked \notin DOMAIN c.I
          THEN Lookup([c EXCEPT !.W = Append(c.W, asked),
                                !.log = Append(c.log, <<"warning", "Trying bank 0", asked, asked>>)],
                      <<inst_type, 0, program>>)
          ELSE Lookup(c, asked)

\* [c, value]
get(c, inst_type, bank, program) ==
  IF ~_validate_args(inst_type, bank, program)
  THEN [c |-> [c EXCEPT !.err = "ValueError"], value |-> None]
  ELSE LET asked == <<inst_type, bank, program>>
           Lookup(d, key) ==
             IF key \in DOMAIN d.I THEN [c |-> d, value |-> d.I[key]]
             ELSE IF InSeq(key, d.W) THEN [c |-> d, value |-> None]
             ELSE [c |-> [d EXCEPT !.W = Append(d.W, key),
                                   !.log = Append(d.log, <<"warning", "Could not find", key, asked>>)],
                   value |-> None]
       IN IF bank > 0 /\ asked \notin DOMAIN c.I
          THEN Lookup(IF InSeq(asked, c.W) THEN c
                      ELSE [c EXCEPT !.W = Append(c.W, asked),
                                     !.log = Append(c.log, <<"warning", "Trying bank 0", asked, asked>>)],
                      <<inst_type, 0, program>>)
          ELSE Lookup(c, asked)

\* the keys the calls use, and two argument triples _validate_args rejects
CatalogKeys ==
  {<<MELODIC, 0, 0>>, <<MELODIC, 1, 0>>, <<MELODIC, 2, 0>>, <<PERCUSSION, 0, 0>>,
   <<MELODIC, 1, 1>>}

BadKeys == {<<2, 0, 0>>, <<MELODIC, 16384, 0>>, <<MELODIC, 0, 128>>}

\* the instrument dictionaries of the files loaded
Dictionaries ==
  {<< >>,
   << <<<<MELODIC, 0, 0>>, 1>>, <<<<PERCUSSION, 0, 0>>, 3>> >>,
   << <<<<MELODIC, 0, 0>>, 2>>, <<<<MELODIC, 1, 0>>, 1>> >>,
   << <<<<MELODIC, 0, 1>>, 2>>, <<<<MELODIC, 16383, 0>>, 1>>, <<<<PERCUSSION, 0, 0>>, 1>> >>}

Loaded(instruments) == [instruments |-> instruments, err |-> ""]

Failed(err) == [instruments |-> << >>, err |-> err]

Files ==
  {[instrument_file |-> Loaded(d), song_file |-> Failed("ValueError")] : d \in Dictionaries}
  \cup {[instrument_file |-> Failed("ValueError"),
         song_file |-> Loaded(<< <<<<MELODIC, 1, 0>>, 2>> >>)],
        [instrument_file |-> Failed("ValueError"), song_file |-> Failed("ValueError")],
        [instrument_file |-> Failed("KeyError"), song_file |-> Loaded(<< >>)]}

ConverterIdle ==
  /\ pc = "idle"
  /\ error = ""
  /\ events = << >>
  /\ commands = << >>
  /\ regs = [r \in 0..255 |-> None]
  /\ midi_channels = [ch \in 0..15 |-> _MidiChannelInfo(ch)]
  /\ imf_channels = [i \in 1..8 |-> _ImfChannelInfo(i)]
  /\ ticks_per_beat = <<0, 1>>
  /\ last_command_ticks = 0
  /\ tempo_start_time = 0
  /\ groups = << >>
  /\ started = NotStarted
  /\ call = << >>
  /\ song_events = << >>
  /\ loaded_events = << >>

converterVars == <<pc, error, events, commands, regs, midi_channels, imf_channels, ticks_per_beat,
                   last_command_ticks, tempo_start_time, groups, started, call, song_events,
                   loaded_events>>

InitCatalog == ConverterIdle /\ ModuleInit

\* the instruments module after a call that left it in state c
Called(c, op, args, value) ==
  /\ _INSTRUMENTS' = c.I
  /\ _WARNINGS' = c.W
  /\ log' = c.log
  /\ adds' = c.adds
  /\ ret' = [n |-> ret.n + 1, op |-> op, args |-> args, value |-> value, err |-> c.err]
  /\ UNCHANGED <<converterVars, saveVars, engineVars, readerVars>>

CatalogAdd ==
  /\ ret.n < MaxCatalogCalls
  /\ \E key \in CatalogKeys \cup {<<MELODIC, 16384, 0>>}, adlib_instrument \in {1, 2} :
       Called(add(CatalogState, key[1], key[2], key[3], adlib_instrument), "add",
              <<key, adlib_instrument>>, None)

CatalogUpdate ==
  /\ ret.n < MaxCatalogCalls
  /\ \E instruments \in Dictionaries, bank_offset \in {0, 1} :
       Called(update(CatalogState, instruments, bank_offset), "update",
              <<instruments, bank_offset>>, None)

CatalogAddFile ==
  /\ ret.n < MaxCatalogCalls
  /\ \E f \in Files, bank_offset \in {0, 1} :
       Called(add_file(CatalogState, f, bank_offset), "add_file", <<f, bank_offset>>, None)

CatalogGet ==
  /\ ret.n < MaxCatalogCalls
  /\ \E key \in CatalogKeys \cup BadKeys :
       \E r \in {get(CatalogState, key[1], key[2], key[3])} :
         Called(r.c, "get", key, r.value)

NextCatalog == CatalogAdd \/ CatalogUpdate \/ CatalogAddFile \/ CatalogGet

SpecCatalog == InitCatalog /\ [][NextCatalog]_vars

\* the entry the claim describes for a key, None for no entry
C13_Expected(key) ==
  IF key \in DOMAIN _INSTRUMENTS THEN _INSTRUMENTS[key]
  ELSE IF <<key[1], 0, key[3]>> \in DOMAIN _INSTRUMENTS THEN _INSTRUMENTS[<<key[1], 0, key[3]>>]
  ELSE None

\* the warnings logged: <<message, key in the message>> and <<message, key asked for>>
C13_Warnings == {i \in 1..Len(log) : log[i][1] = "warning"}

C13_OncePerKey ==
  \A i, j \in C13_Warnings :
    (i # j /\ log[i][2] = log[j][2]) => (log[i][3] # log[j][3] /\ log[i][4] # log[j][4])

(***************************************************************************)
(* C13.  For any catalog contents, get(kind, bank, program) returns the    *)
(* entry stored under (kind, bank, program) when it exists; otherwise the  *)
(* entry stored under (kind, 0, program) when that exists; otherwise None. *)
(* Over any sequence of get calls, the missing-bank warning and the        *)
(* missing-instrument warning are each logged at most once per distinct    *)
(* (kind, bank, program) key.                                              *)
(***************************************************************************)
C13_Get ==
  [][/\ (ret' # ret /\ ret'.op = "get" /\ ret'.err = "") =>
          /\ ret'.value = C13_Expected(ret'.args)
          /\ _INSTRUMENTS' = _INSTRUMENTS
     /\ C13_OncePerKey']_vars

\* a key asked for while its bank 0 entry is missing too, then found in
\* bank 0 once that entry is added
C13_Witness ==
  /\ ret.n = 3
  /\ ret.op = "get"
  /\ ret.args = <<MELODIC, 1, 0>>
  /\ ret.value = 1
  /\ <<MELODIC, 1, 0>> \notin DOMAIN _INSTRUMENTS
  /\ Len(_WARNINGS) = 2
  /\ Cardinality(C13_Warnings) = 2

\* the instrument of the most recent add for a key, None when it has none
RECURSIVE C14_LastAdd(_, _)
C14_LastAdd(key, n) ==
  IF n = 0 THEN None
  ELSE IF adds[n][1] = key THEN adds[n][2]
  ELSE C14_LastAdd(key, n - 1)

C14_KeysAdded == {adds[i][1] : i \in 1..Len(adds)}

(***************************************************************************)
(* C14.  After any sequence of add / update / add_file calls from any      *)
(* loaders, the entry stored under a key (kind, bank, program) is the      *)
(* instrument of the most recent add for that key, and count() equals the  *)
(* number of distinct keys ever added: re-adding an existing key replaces  *)
(* the entry without changing count.                                       *)
(***************************************************************************)
C14_LastAddWins ==
  /\ DOMAIN _INSTRUMENTS = C14_KeysAdded
  /\ \A key \in C14_KeysAdded : _INSTRUMENTS[key] = C14_LastAdd(key, Len(adds))
  /\ count(CatalogState) = Cardinality(C14_KeysAdded)

\* an entry stored first, then a file of three entries whose last one
\* replaces it: four adds, three keys
C14_Witness ==
  /\ ret.n = 2
  /\ ret.op = "add_file"
  /\ ret.err = ""
  /\ Len(adds) = 4
  /\ adds[1][1] = adds[4][1]
  /\ adds[1][2] # adds[4][2]
  /\ count(CatalogState) = 3
  /\ _INSTRUMENTS[adds[1][1]] = adds[4][2]

(***************************************************************************)
(* MidiEngine.start(): the CONTROLLER_CHANGE branch of the loop over the   *)
(* song events.                                                            *)
(***************************************************************************)
MaxEngineEvents == 3

EngineEvent(channel, controller, value) ==
  [channel |-> channel, controller |-> controller, value |-> value]

\* the controller changes of the songs played
EngineEvents ==
  {EngineEvent(0, cv[1], cv[2]) :
     cv \in {<<BANK_SELECT_MSB, 120>>, <<BANK_SELECT_MSB, 127>>, <<BANK_SELECT_LSB, 1>>,
             <<3, 120>>, <<RPN_MSB, 0>>, <<RPN_LSB, 0>>, <<NRPN_MSB, 0>>,
             <<DATA_ENTRY_MSB, 12>>, <<DATA_ENTRY_LSB, 100>>, <<VOLUME_MSB, 90>>, <<BALANCE_MSB, 10>>,
             <<PAN_MSB, 100>>, <<EXPRESSION_MSB, 50>>, <<RESET_ALL_CONTROLLERS, 0>>}}
  \cup {EngineEvent(PERCUSSION_CHANNEL, BANK_SELECT_LSB, 1),
        EngineEvent(PERCUSSION_CHANNEL, RESET_ALL_CONTROLLERS, 0)}

InitEngine == ConverterIdle /\ ModuleInit

EngineControllerChange ==
  /\ engine_error = ""
  /\ Len(engine_events) < MaxEngineEvents
  /\ \E song_event \in EngineEvents :
       \E ch \in {set_controller_value(channels[song_event.channel],
                                       ControllerType(song_event.controller),
                                       song_event.value)} :
         /\ channels' = [channels EXCEPT ![song_event.channel] = [ch EXCEPT !.err = ""]]
         /\ engine_error' = ch.err
         /\ engine_events' = Append(engine_events, song_event)
  /\ UNCHANGED <<converterVars, saveVars, catalogVars, ret, readerVars>>

NextEngine == EngineControllerChange

SpecEngine == InitEngine /\ [][NextEngine]_vars

C15_LastEvent == engine_events[Len(engine_events)]

(***************************************************************************)
(* C15.  After a ResetAllControllers (CC 121) received in any reachable    *)
(* channel state of the MIDI engine, including while an RPN or an NRPN is  *)
(* selected, the channel holds the documented defaults: volume controller  *)
(* = 100, balance = 64 (center), pan = 64 (center), expression = 127, RPN  *)
(* and NRPN selectors = (127,127) with the current-RPN-kind flag cleared,  *)
(* and pitch-bend sensitivity = 2 semitones, 0 cents.                      *)
(***************************************************************************)
C15_ResetDefaults ==
  (engine_events # << >> /\ C15_LastEvent.controller = RESET_ALL_CONTROLLERS) =>
    LET ch == channels[C15_LastEvent.channel]
    IN /\ engine_error = ""
       /\ ch._controllers[VOLUME_MSB] = 100
       /\ ch._controllers[BALANCE_MSB] = 64 /\ ch._balance[1] = 0
       /\ ch._controllers[PAN_MSB] = 64 /\ ch._pan[1] = 0
       /\ ch._controllers[EXPRESSION_MSB] = 127
       /\ get_msb_lsb_values(ch, RPN_MSB) = NULL_RPN
       /\ get_msb_lsb_values(ch, NRPN_MSB) = NULL_RPN
       /\ ch._in_rpn_data = "None"
       /\ ch.rpn[PITCH_BEND_SENSITIVITY_RPN] = <<2, 0>>
       /\ ch._pitch_bend_sensitivity = <<200, 100>>

\* the bank the claim describes: the last values written to CC 0 and CC 32
\* on the channel since its last reset
RECURSIVE C16_LastWritten(_, _, _)
C16_LastWritten(channel, controller, n) ==
  IF n = 0 THEN 0
  ELSE IF engine_events[n].channel = channel
          /\ engine_events[n].controller = RESET_ALL_CONTROLLERS THEN 0
  ELSE IF engine_events[n].channel = channel /\ engine_events[n].controller = controller
    THEN engine_events[n].value
  ELSE C16_LastWritten(channel, controller, n - 1)

C16_Bank(channel) ==
  C16_LastWritten(channel, 0, Len(engine_events)) * 128
  + C16_LastWritten(channel, 32, Len(engine_events))

(***************************************************************************)
(* C16.  After any sequence of controller changes, a MIDI channel c is     *)
(* classified as percussion exactly when c == 9 or the channel's bank,     *)
(* always equal to BankMSB*128 + BankLSB of the last values written to     *)
(* CC 0 and CC 32 (0 after a reset), equals 120*128 or 127*128; the        *)
(* classification follows a bank-select change immediately.                *)
(***************************************************************************)
C16_Percussion ==
  engine_error = "" =>
    \A c \in 0..15 :
      /\ channels[c]._bank = C16_Bank(c)
      /\ is_percussion_channel(channels, c)
           <=> (c = 9 \/ C16_Bank(c) = 120 * 128 \/ C16_Bank(c) = 127 * 128)

(***************************************************************************)
(* The converter's two note functions, called on their own:                *)
(* get_block_and_freq(note, scaled_pitch_bend) and                         *)
(* get_instrument_note(instrument, song_event).                            *)
(***************************************************************************)
\* a call not made yet
Pending(op, args) == [n |-> 0, op |-> op, args |-> args, value |-> None, err |-> ""]

\* adjusted notes 0..127, scaled bends of -2..+2 semitones in steps of 1/BendDen
BlockAndFreqCalls ==
  {Pending("get_block_and_freq", <<note, bend2>>) :
     note \in 0..127, bend2 \in (-2 * BendDen)..(2 * BendDen)}

InstrumentNoteCalls ==
  {Pending("get_instrument_note", <<instrument, SongEvent(0, 0, 0, "NOTE_ON", 0, note, 100)>>) :
     instrument \in 1..Len(Instruments), note \in 0..127}

InitFunctions ==
  /\ ConverterIdle
  /\ song = DefaultSong
  /\ fp = << >>
  /\ _INSTRUMENTS = NoInstruments
  /\ _WARNINGS = << >>
  /\ log = << >>
  /\ adds = << >>
  /\ ret \in BlockAndFreqCalls \cup InstrumentNoteCalls
  /\ EngineInit
  /\ ReaderInit

CallGetBlockAndFreq ==
  /\ ret.n = 0
  /\ ret.op = "get_block_and_freq"
  /\ \E r \in {get_block_and_freq(ret.args[1], ret.args[2])} :
       ret' = [ret EXCEPT !.n = 1,
                          !.value = IF r.err = "" THEN <<r.block, r.freq>> ELSE None,
                          !.err = r.err]
  /\ UNCHANGED <<converterVars, saveVars, catalogVars, engineVars, readerVars>>

CallGetInstrumentNote ==
  /\ ret.n = 0
  /\ ret.op = "get_instrument_note"
  /\ ret' = [ret EXCEPT !.n = 1, !.value = get_instrument_note(ret.args[1], ret.args[2])]
  /\ log' = log \o get_instrument_note_log(ret.args[1], ret.args[2])
  /\ UNCHANGED <<converterVars, saveVars, _INSTRUMENTS, _WARNINGS, adds, engineVars, readerVars>>

NextFunctions == CallGetBlockAndFreq \/ CallGetInstrumentNote

SpecFunctions == InitFunctions /\ [][NextFunctions]_vars

(***************************************************************************)
(* C17.  For every adjusted note in 0..127 and every scaled pitch bend in  *)
(* [-2, +2] semitones, get_block_and_freq returns a pair (block, fnum)     *)
(* with 0 <= block <= 7 and 0 <= fnum <= 0x3FF without an index error or   *)
(* assertion failure, the bend-to table entry being                        *)
(* table[clamp(note + semitones)] with the index clamped into the          *)
(* 103-entry table at both ends.                                           *)
(***************************************************************************)
C17_InRange ==
  (ret.op = "get_block_and_freq" /\ ret.n = 1) =>
    /\ ret.err = ""
    /\ ret.value[1] \in 0..7
    /\ ret.value[2] \in 0..1023

\* the sum the claim clamps
C18_Sum ==
  LET inst == Instruments[ret.args[1]]
  IN (IF inst.use_given_note THEN inst.given_note ELSE ret.args[2].note) + inst.note_offset

MaxMusEvents == 3

_SIGNATURE == <<77, 85, 83, 26>>      \* b"MUS\x1a"

\* musfileplugin.EventType
RELEASE_NOTE == 0
PLAY_NOTE == 1
PITCH_BEND == 2
SYSTEM == 3
CONTROLLER == 4
END_OF_MEASURE == 5
FINISH == 6
UNUSED == 7

\* the MIDI controller of a MUS system event, None for the others
SystemEventType(system_controller) ==
  CASE system_controller = 10 -> 120      \* ALL_SOUNDS_OFF
    [] system_controller = 11 -> 123      \* ALL_NOTES_OFF
    [] system_controller = 12 -> 126      \* MONO
    [] system_controller = 13 -> 127      \* POLY
    [] system_controller = 14 -> RESET_ALL_CONTROLLERS
    [] OTHER -> None

\* the MIDI controller of a MUS controller 1..9, None for the others
MusControllerType(controller) ==
  CASE controller = 1 -> BANK_SELECT_MSB
    [] controller = 2 -> 1                \* MODULATION_WHEEL_MSB
    [] controller = 3 -> VOLUME_MSB
    [] controller = 4 -> PAN_MSB
    [] controller = 5 -> EXPRESSION_MSB
    [] controller = 6 -> 91               \* REVERB_DEPTH
    [] controller = 7 -> 93               \* CHORUS_DEPTH
    [] controller = 8 -> 64               \* SUSTAIN_PEDAL_SWITCH
    [] controller = 9 -> 67               \* SOFT_PEDAL_SWITCH
    [] OTHER -> None

\* _binary.u8(fp.read(1)): the value is left in m.byte; unpacking the empty
\* read at the end of the file raises struct.error
_u8(m) ==
  IF m.err # "" THEN m
  ELSE IF m.pos < Len(m.data) THEN [m EXCEPT !.byte = m.data[m.pos + 1], !.pos = m.pos + 1]
  ELSE [m EXCEPT !.err = "struct.error"]

\* _binary.u16le(fp.read(2))
u16le(m) ==
  IF m.err # "" THEN m
  ELSE IF m.pos + 2 <= Len(m.data)
    THEN [m EXCEPT !.byte = m.data[m.pos + 1] + 256 * m.data[m.pos + 2], !.pos = m.pos + 2]
  ELSE [m EXCEPT !.err = "struct.error", !.pos = Len(m.data)]

\* the value is left in m.byte
RECURSIVE _read_var_length(_, _)
_read_var_length(m, length) ==
  LET b == _u8(m)
  IN IF b.err # "" THEN b
     ELSE IF b.byte >= 128 THEN _read_var_length(b, length * 128 + (b.byte % 128))
     ELSE [b EXCEPT !.byte = length * 128 + b.byte]

\* no MIDI event for this MUS event
NoEvent(m) == [m |-> m, type |-> "", channel |-> None, a |-> None, b |-> None]

\* the branches of the loop body on event_type, m being the reader after
\* the event byte: [m, type, channel, a, b], type "" when midi_event_type
\* stays 0
EventData(m, event_type, channel) ==
  CASE event_type = RELEASE_NOTE ->
         LET m1 == _u8(m)
         IN [m |-> m1, type |-> "NOTE_OFF", channel |-> channel, a |-> m1.byte, b |-> 127]
    [] event_type = PLAY_NOTE ->
         LET m1 == _u8(m)
             m2 == IF m1.err = "" /\ m1.byte >= 128 THEN _u8(m1) ELSE m1
             m3 == IF m1.err = "" /\ m1.byte >= 128 /\ m2.err = ""
                   THEN [m2 EXCEPT !.channel_volume[channel] = m2.byte] ELSE m2
         IN [m |-> m3, type |-> "NOTE_ON", channel |-> channel, a |-> m1.byte % 128,
             b |-> m3.channel_volume[channel]]
    [] event_type = PITCH_BEND ->
         LET m1 == _u8(m)
         IN \* amount / (128.0 if amount < 0 else 127.0), kept as a fraction
            [m |-> m1, type |-> "PITCH_BEND", channel |-> channel, a |-> None,
             b |-> <<m1.byte - 128, IF m1.byte - 128 < 0 THEN 128 ELSE 127>>]
    [] event_type = SYSTEM ->
         LET m1 == _u8(m)
         IN IF m1.err = "" /\ SystemEventType(m1.byte) # None
            THEN [m |-> m1, type |-> "CONTROLLER_CHANGE", channel |-> channel,
                  a |-> SystemEventType(m1.byte), b |-> 0]
            ELSE NoEvent(m1)
    [] event_type = CONTROLLER ->
         LET m1 == _u8(m)
             m2 == _u8(m1)
         IN IF m2.err # "" THEN NoEvent(m2)
            ELSE IF m1.byte = 0
              THEN IF channel # 15
                   THEN [m |-> m2, type |-> "PROGRAM_CHANGE", channel |-> channel,
                         a |-> m2.byte % 128, b |-> None]
                   ELSE NoEvent(m2)
            ELSE IF MusControllerType(m1.byte) # None
              THEN [m |-> m2, type |-> "CONTROLLER_CHANGE", channel |-> channel,
                    a |-> MusControllerType(m1.byte), b |-> m2.byte % 128]
            ELSE NoEvent(m2)
    [] event_type = END_OF_MEASURE -> NoEvent(m)
    [] event_type = FINISH ->
         [m |-> m, type |-> "META", channel |-> None, a |-> END_OF_TRACK, b |-> None]
    [] event_type = UNUSED ->
         \* self.fp.read(1) without unpacking
         NoEvent(IF m.pos < Len(m.data) THEN [m EXCEPT !.pos = m.pos + 1] ELSE m)

\* one pass through the body of the while loop of _read_song_data; m.finish
\* is the position behind the Finish byte once the break was taken
ReadIteration(m) ==
  LET m1 == _u8(m)
      has_delay == m1.byte >= 128
      event_type == (m1.byte % 128) \div 16
      channel == m1.byte % 16
      Appended(d) ==
        IF d.m.err = "" /\ d.type # ""
        THEN [d.m EXCEPT !.events = Append(@, SongEvent(Len(@), 0, m.event_time, d.type,
                                                        d.channel, d.a, d.b)),
                         !.read = Append(@, SongEvent(Len(@), 0, m.event_time, d.type,
                                                      d.channel, d.a, d.b))]
        ELSE d.m
      Delayed(m2) ==
        IF m2.err # "" THEN m2
        ELSE IF event_type = FINISH
          THEN [m2 EXCEPT !.finish = IF @ = 0 THEN m1.pos ELSE @]
        ELSE IF has_delay
          THEN LET m3 == _read_var_length(m2, 0)
               IN IF m3.err # "" THEN m3 ELSE [m3 EXCEPT !.event_time = @ + m3.byte]
        ELSE m2
  IN IF m1.err # "" THEN m1 ELSE Delayed(Appended(EventData(m1, event_type, channel)))

\* the loop never leaves at a Finish
LoopEnds_no_break(m) == ~(m.pos < m.song_end)

\* the break at a Finish, or the loop condition
LoopEnds(m) == m.finish # 0 \/ ~(m.pos < m.song_end)

\* MidiSongFile.sort()
SortedSong(m) ==
  LET ordered == Sorted(m.events, Len(m.events))
  IN [m EXCEPT !.events = [index \in 1..Len(ordered) |->
                             [ordered[index] EXCEPT !.index = index - 1]]]

\* where the constructor stands after a step of the reader: it raised, it
\* left the loop and sorted, or it is in the loop
Constructed(m) ==
  IF m.err # "" THEN [m EXCEPT !.pc = "failed"]
  ELSE IF LoopEnds(m) THEN [SortedSong(m) EXCEPT !.pc = "loaded"]
  ELSE [m EXCEPT !.pc = "reading"]

\* the encoded MUS events the files are made of
MusChunks ==
  { <<16, 60>>,               \* play note 60 on channel 0
    <<144, 188, 100, 70>>,    \* play note 60 with volume 100 on channel 0, delay 70
    <<128, 60, 129, 0>>,      \* release note 60 on channel 0, delay 128
    <<33, 192>>,              \* pitch bend on channel 1
    <<64, 3, 90>>,            \* volume controller on channel 0
    <<208, 35>>,              \* end of measure, delay 35
    <<79, 0, 5>>,             \* change instrument on the percussion channel
    <<96>>,                   \* finish
    <<224>> }                 \* finish with the delay bit set

RECURSIVE MusBodies(_)
MusBodies(n) ==
  IF n = 0 THEN {<< >>}
  ELSE MusBodies(n - 1) \cup {body \o chunk : body \in MusBodies(n - 1), chunk \in MusChunks}

\* signature, song_length, song_offset, song data
MusFileBytes(signature, song_length, body) ==
  signature \o <<song_length % 256, song_length \div 256, 8, 0>> \o body

\* files whose declared length is the length of the data or one more, and
\* one file that is not a MUS file
MusFiles ==
  {MusFileBytes(_SIGNATURE, Len(body) + extra, body) :
     body \in MusBodies(MaxMusEvents), extra \in {0, 1}}
  \cup {MusFileBytes(<<77, 84, 104, 100>>, 0, << >>)}

InitMus ==
  /\ ConverterIdle
  /\ song = DefaultSong
  /\ fp = << >>
  /\ _INSTRUMENTS = NoInstruments
  /\ _WARNINGS = << >>
  /\ log = << >>
  /\ adds = << >>
  /\ ret = NoCall
  /\ EngineInit
  /\ mus \in {[NoMus EXCEPT !.pc = "open", !.data = data] : data \in MusFiles}
  /\ midi_file = NoMidiFile
  /\ load = NoLoad
  /\ open_files = {"caller"}

\* _load_file up to the while loop of _read_song_data
MusLoadFile ==
  /\ mus.pc = "open"
  /\ IF ~(Len(mus.data) >= 4 /\ SubSeq(mus.data, 1, 4) = _SIGNATURE)
     THEN mus' = [mus EXCEPT !.pc = "failed", !.err = "ValueError",
                             !.pos = IF Len(mus.data) < 4 THEN Len(mus.data) ELSE 4]
     ELSE \E song_length \in {u16le([mus EXCEPT !.pos = 4])} :
          \E song_offset \in {u16le(song_length)} :
            mus' = Constructed(
                     [song_offset EXCEPT
                        !.events = <<SongEvent(0, 0, 0, "META", None, SET_TEMPO, 60)>>,
                        !.read = <<SongEvent(0, 0, 0, "META", None, SET_TEMPO, 60)>>,
                        !.pos = IF song_offset.err = "" THEN song_offset.byte ELSE @,
                        !.song_end = song_offset.byte + song_length.byte,
                        !.event_time = 0])
  /\ UNCHANGED <<converterVars, saveVars, catalogVars, ret, engineVars, midi_file, load,
                 open_files>>

\* one event of the song data
MusReadEvent ==
  /\ mus.pc = "reading"
  /\ mus' = Constructed(ReadIteration(mus))
  /\ UNCHANGED <<converterVars, saveVars, catalogVars, ret, engineVars, midi_file, load,
                 open_files>>

NextMus == MusLoadFile \/ MusReadEvent

SpecMus == InitMus /\ [][NextMus]_vars

C19_IsEndOfTrack(event) == event.type = "META" /\ event.meta_type = END_OF_TRACK

(***************************************************************************)
(* C19 as stated.  When the MUS reader meets a Finish event, the           *)
(* EndOfTrack event it emits at the Finish's time is the last event of the *)
(* song: no event is produced from any byte after the Finish, even when    *)
(* more event bytes remain before the declared song end.                   *)
(***************************************************************************)
C19_AsStated ==
  (mus.pc = "loaded" /\ mus.finish # 0) =>
    /\ C19_IsEndOfTrack(mus.events[Len(mus.events)])
    /\ mus.events[Len(mus.events)].time = mus.event_time
    /\ mus.pos = mus.finish

(***************************************************************************)
(* C19.  When the MUS reader meets a Finish event it stops reading: the    *)
(* EndOfTrack event it appends at the Finish's time is the last event it   *)
(* produces, no byte after the Finish is read even when more event bytes   *)
(* remain before the declared song end, and no event of the song is later  *)
(* in time than the EndOfTrack.  In the song's sorted event list the       *)
(* EndOfTrack is followed only by channel events of the same time.         *)
(***************************************************************************)
C19_Truncates ==
  (mus.pc = "loaded" /\ mus.finish # 0) =>
    /\ mus.pos = mus.finish
    /\ C19_IsEndOfTrack(mus.read[Len(mus.read)])
    /\ mus.read[Len(mus.read)].time = mus.event_time
    /\ Len(mus.events) = Len(mus.read)
    /\ \E k \in 1..Len(mus.events) :
         /\ C19_IsEndOfTrack(mus.events[k])
         /\ mus.events[k].time = mus.event_time
         /\ \A j \in 1..Len(mus.events) :
              /\ mus.events[j].time <= mus.event_time
              /\ j # k => ~C19_IsEndOfTrack(mus.events[j])
              /\ j > k => (mus.events[j].type # "META" /\ mus.events[j].time = mus.event_time)

\* a Finish met with event bytes left before the declared song end, after a
\* note played at the Finish's time: the note is the last event of the song
C19_Witness ==
  /\ mus.pc = "loaded" /\ mus.finish # 0
  /\ mus.pos < mus.song_end /\ mus.pos < Len(mus.data)
  /\ mus.events[Len(mus.events)].type = "NOTE_ON"
  /\ C19_IsEndOfTrack(mus.read[Len(mus.read)])

(***************************************************************************)
(* imfcreator/plugins/__init__.py: InstrumentFile.load_file(f) and         *)
(* MidiSongFile.load_file(filename).  A plugin class is described by what  *)
(* it does with the file: "reject" (accept() is false), "load" (the        *)
(* instance is constructed) or the exception its constructor raises.       *)
(***************************************************************************)
MaxPlugins == 3

PluginBehaviours == {"reject", "load", "ValueError", "IOError", "OSError", "struct.error"}

RECURSIVE PluginLists(_)
PluginLists(n) ==
  IF n = 0 THEN {<< >>}
  ELSE PluginLists(n - 1)
       \cup {Append(plugins, b) : plugins \in PluginLists(n - 1), b \in PluginBehaviours}

\* every file object closed on the way out, the caller's included
Exit_always(l, files) == files \ {l.fp}

\* the files open behind the finally clause of InstrumentFile.load_file,
\* and behind the with statement of MidiSongFile.load_file
Exit(l, files) ==
  IF l.cls = "MidiSongFile" \/ l.exclusive_fp THEN files \ {l.fp} ELSE files

InitLoad == ConverterIdle /\ ModuleInit

\* load_file up to the loop over the plugin classes; f is a file name or the
\* caller's file object, and open() may fail
LoadFileCall ==
  /\ load.pc = "idle"
  /\ \E cls \in {"InstrumentFile", "MidiSongFile"}, f \in {"name", "object"},
        plugins \in PluginLists(MaxPlugins), found \in BOOLEAN :
       LET l == [load EXCEPT !.cls = cls, !.f = f, !.plugins = plugins]
       IN IF f = "name"
          THEN IF found
               THEN /\ load' = [l EXCEPT !.pc = "scan", !.fp = "opened", !.i = 1,
                                         !.exclusive_fp = (cls = "InstrumentFile")]
                    /\ open_files' = open_files \cup {"opened"}
               ELSE /\ load' = [l EXCEPT !.pc = "raised", !.err = "OSError"]
                    /\ UNCHANGED open_files
          ELSE IF cls = "InstrumentFile"
               THEN /\ found
                    /\ load' = [l EXCEPT !.pc = "scan", !.fp = "caller", !.i = 1,
                                         !.exclusive_fp = FALSE]
                    /\ UNCHANGED open_files
               ELSE \* open(<file object>, "rb")
                    /\ found
                    /\ load' = [l EXCEPT !.pc = "raised", !.err = "TypeError"]
                    /\ UNCHANGED open_files
  /\ UNCHANGED <<converterVars, saveVars, catalogVars, ret, engineVars, mus, midi_file>>

\* one pass of the loop over cls._PLUGINS
LoadFileTry ==
  /\ load.pc = "scan"
  /\ load.i <= Len(load.plugins)
  /\ LET subclass == load.plugins[load.i]
     IN CASE subclass = "reject" ->
               /\ load' = [load EXCEPT !.i = @ + 1]
               /\ UNCHANGED open_files
          [] subclass = "load" ->
               /\ load' = [load EXCEPT !.pc = "returned", !.instance = load.i]
               /\ open_files' = Exit(load, open_files)
          [] subclass \in {"ValueError", "IOError", "OSError"} ->
               /\ load' = [load EXCEPT !.i = @ + 1,
                                       !.log = Append(@, <<"error", load.i, subclass>>)]
               /\ UNCHANGED open_files
          [] OTHER ->
               /\ load' = [load EXCEPT !.pc = "raised", !.err = subclass]
               /\ open_files' = Exit(load, open_files)
  /\ UNCHANGED <<converterVars, saveVars, catalogVars, ret, engineVars, mus, midi_file>>

\* the loop is over and no plugin loaded the file
LoadFileFail ==
  /\ load.pc = "scan"
  /\ load.i > Len(load.plugins)
  /\ load' = [load EXCEPT !.pc = "raised", !.err = "ValueError"]
  /\ open_files' = Exit(load, open_files)
  /\ UNCHANGED <<converterVars, saveVars, catalogVars, ret, engineVars, mus, midi_file>>

NextLoad == LoadFileCall \/ LoadFileTry \/ LoadFileFail

SpecLoad == InitLoad /\ [][NextLoad]_vars

(***************************************************************************)
(* C20.  For InstrumentFile.load_file and MidiSongFile.load_file called    *)
(* with a file name, the file handle they open is closed by the time the   *)
(* call returns or raises, on every path: a plugin loads successfully, an  *)
(* accepting plugin fails with ValueError/IOError/OSError and the next one *)
(* is tried, a plugin raises another exception, or no plugin accepts and   *)
(* ValueError is raised.  A file object supplied by the caller is never    *)
(* closed by load_file.                                                    *)
(***************************************************************************)
C20_HandlesClosed ==
  /\ "caller" \in open_files
  /\ load.pc \in {"returned", "raised"} => "opened" \notin open_files
  /\ (load.pc = "scan" /\ load.f = "name") => (load.fp = "opened" /\ "opened" \in open_files)
  /\ (load.pc = "scan" /\ load.f = "object") => load.fp = "caller"

\* a call with a file name in which one plugin failed with an error that is
\* caught and a later one raised another exception: the file is closed
C20_Witness ==
  /\ load.pc = "raised" /\ load.err = "struct.error"
  /\ load.f = "name" /\ load.fp = "opened"
  /\ load.log # << >>
  /\ open_files = {"caller"}

(***************************************************************************)
(* Conversions against the instruments module.  What a conversion asks of  *)
(* the module is the list of instruments.get() calls its events make       *)
(* through get_event_instrument; the command buffer is computed from the   *)
(* instruments returned.                                                   *)
(***************************************************************************)
\* the get() calls of a conversion from lookup i on: [c, value], value the
\* instruments returned so far
RECURSIVE ConvertLookups(_, _, _, _)
ConvertLookups(c, keys, i, value) ==
  IF i > Len(keys) \/ c.err # "" THEN [c |-> c, value |-> value]
  ELSE LET r == get(c, keys[i][1], keys[i][2], keys[i][3])
       IN ConvertLookups(r.c, keys, i + 1, Append(value, r.value))

\* the lookups of the songs converted: one or two instruments asked for
SongLookups ==
  {<<key>> : key \in CatalogKeys} \cup {<<k1, k2>> : k1 \in CatalogKeys, k2 \in CatalogKeys}

CatalogConvert ==
  /\ ret.n < MaxCatalogCalls
  /\ \E keys \in SongLookups :
       \E r \in {ConvertLookups(CatalogState, keys, 1, << >>)} :
         Called(r.c, "convert", keys, r.value)

NextRepeat == CatalogAdd \/ CatalogGet \/ CatalogConvert

SpecRepeat == InitCatalog /\ [][NextRepeat]_vars

\* the same conversion in a process that has looked nothing up before
C21_Fresh(keys) ==
  ConvertLookups([I |-> _INSTRUMENTS, W |-> << >>, log |-> << >>, adds |-> << >>, err |-> ""],
                 keys, 1, << >>)

(***************************************************************************)
(* C21.  Conversion output is a function of the song and the catalog only: *)
(* converting the same song against the same instrument catalog yields the *)
(* same instruments (hence the same command buffer) and the same sequence  *)
(* of logged warning lines every time, independent of which loads,         *)
(* lookups or conversions were performed earlier in the same process.      *)
(***************************************************************************)
C21_Deterministic ==
  [][(ret'.n = ret.n + 1 /\ ret'.op = "convert") =>
       /\ ret'.value = C21_Fresh(ret'.args).value
       /\ log' = log \o C21_Fresh(ret'.args).c.log]_vars

(***************************************************************************)
(* C22.  A NoteOff that finds the OPL channel c holding (instrument,       *)
(* adjusted note) sets that channel's last_note to None and emits at most  *)
(* one command, to register 0xB0+c, whose value is the shadow of 0xB0+c    *)
(* with only the key-on bit cleared; no other register, OPL channel or     *)
(* MIDI channel's active notes are modified.                               *)
(***************************************************************************)
\* the OPL channel the NoteOff finds in the current state, 0 for none
C22_Found(event) ==
  LET gi == get_event_instrument(midi_channels, event)
      active_notes == midi_channels[event.channel].active_notes
      match == FirstFrom([i \in 1..Len(active_notes) |->
                            active_notes[i].song_event.note = event.note], 1)
  IN IF gi.err # "" \/ gi.inst = None THEN 0
     ELSE IF is_percussion_event(midi_channels, event)
       THEN find_imf_channel_for_instrument_note(imf_channels, gi.inst,
                                                 get_instrument_note(gi.inst, event))
     ELSE IF match = 0 THEN 0
     ELSE find_imf_channel_for_instrument_note(imf_channels, gi.inst, active_notes[match].note)

C22_KeyedOff(c) ==
  IF regs[BLOCK_MSG + c] = None THEN None
  ELSE regs[BLOCK_MSG + c] - KEY_ON_MASK * Bit(regs[BLOCK_MSG + c], 5)

C22_NoteOffStep(event, c) ==
  LET added == SubSeq(commands', Len(commands) + 1, Len(commands'))
  IN /\ pc' = "events"
     /\ imf_channels' = [imf_channels EXCEPT ![c].last_note = None]
     /\ Len(added) <= 1
     /\ \A i \in 1..Len(added) :
          added[i][1] = BLOCK_MSG + c /\ added[i][2] = C22_KeyedOff(c)
     /\ regs' = [regs EXCEPT ![BLOCK_MSG + c] = C22_KeyedOff(c)]
     /\ \A i \in 1..Len(commands) :
          commands'[i][1] = commands[i][1] /\ commands'[i][2] = commands[i][2]
     /\ \A ch \in 0..15 :
          ch # event.channel => midi_channels'[ch].active_notes = midi_channels[ch].active_notes

C22_NoteOffFrame ==
  [][(pc = "events" /\ Len(events') = Len(events) + 1 /\ IsNoteOff(events'[Len(events')])
        /\ C22_Found(events'[Len(events')]) # 0)
       => C22_NoteOffStep(events'[Len(events')], C22_Found(events'[Len(events')]))]_vars

\* a NoteOff has keyed one OPL channel off, its block bits kept, while another
\* channel goes on sounding
C22_Witness ==
  /\ pc = "events"
  /\ events # << >>
  /\ IsNoteOff(events[Len(events)])
  /\ \E c \in 1..8 :
       /\ imf_channels[c].last_note = None
       /\ regs[BLOCK_MSG + c] # None
       /\ regs[BLOCK_MSG + c] > 0
       /\ Bit(regs[BLOCK_MSG + c], 5) = 0
       /\ commands[Len(commands)][1] = BLOCK_MSG + c
       /\ commands[Len(commands)][2] = regs[BLOCK_MSG + c]
       /\ \E d \in 1..8 : d # c /\ imf_channels[d].last_note # None

(***************************************************************************)
(* C23.  In every state reachable during a conversion and for every OPL    *)
(* channel c, c.last_note is not None if and only if the shadow of         *)
(* register 0xB0+c is defined and has the key-on bit set.                  *)
(***************************************************************************)
C23_KeyedOn(c) == regs[BLOCK_MSG + c] # None /\ Bit(regs[BLOCK_MSG + c], 5) = 1

\* imf_channels and regs are locals of _convert_from: they exist while it runs
\* and in the state it returns from, not after it has raised
C23_HeldIffKeyedOn ==
  pc \in {"events", "done"} =>
    \A c \in 1..8 : (imf_channels[c].last_note # None) <=> C23_KeyedOn(imf_channels[c].number)

\* several OPL channels hold a note while another has been keyed off again
C23_Witness ==
  /\ pc = "events"
  /\ Cardinality({c \in 1..8 : imf_channels[c].last_note # None /\ C23_KeyedOn(c)}) >= 2
  /\ \E c \in 1..8 :
       /\ imf_channels[c].last_note = None
       /\ regs[BLOCK_MSG + c] # None
       /\ ~C23_KeyedOn(c)

(***************************************************************************)
(* C24.  Every NoteOn that was given an OPL channel and is later followed  *)
(* by a NoteOff for the same MIDI channel and note is released by that     *)
(* NoteOff: immediately after it the OPL channel's key-on bit is cleared   *)
(* and its last_note is None, also when a ProgramChange or a bank-select   *)
(* change for that MIDI channel occurred in between.                       *)
(***************************************************************************)
\* the adjusted note of the active note the NoteOff matches, None for no match
C24_MatchedNote(event) ==
  LET active_notes == midi_channels[event.channel].active_notes
      match == FirstFrom([i \in 1..Len(active_notes) |->
                            active_notes[i].song_event.note = event.note], 1)
  IN IF match = 0 THEN None ELSE active_notes[match].note

\* the OPL channels sounding that note for the event's MIDI channel
C24_Sounding(event) ==
  {c \in 1..8 : /\ started[c] = event.channel
                /\ imf_channels[c].last_note # None
                /\ imf_channels[c].last_note = C24_MatchedNote(event)}

C24_Released ==
  [][(pc = "events" /\ Len(events') = Len(events) + 1 /\ IsNoteOff(events'[Len(events')])
        /\ C24_Sounding(events'[Len(events')]) # {})
       => \E c \in C24_Sounding(events'[Len(events')]) :
            /\ imf_channels'[c].last_note = None
            /\ regs'[BLOCK_MSG + c] # None
            /\ Bit(regs'[BLOCK_MSG + c], 5) = 0]_vars

(***************************************************************************)
(* C26.  For every OPL channel that can be allocated, the commands a       *)
(* NoteOn emits when the channel's instrument differs from the requested   *)
(* one contain no write to the channel's modulator or carrier volume       *)
(* register apart from the volume routine's: within one NoteOn each of the *)
(* two volume registers is written at most once.                           *)
(***************************************************************************)
\* how many commands of the list write register reg
C26_Writes(cmds, reg) == Cardinality({i \in 1..Len(cmds) : cmds[i][1] = reg})

\* the OPL channels the step gives a note to
C26_Allocated ==
  {c \in 1..8 : imf_channels[c].last_note = None /\ imf_channels'[c].last_note # None}

C26_VolumeWrittenOnce ==
  [][(pc = "events" /\ Len(events') = Len(events) + 1
        /\ events'[Len(events')].type = "NOTE_ON" /\ ~IsNoteOff(events'[Len(events')]))
       => \A c \in C26_Allocated :
            imf_channels[c].instrument # imf_channels'[c].instrument =>
              \A reg \in {VOLUME_MSG + MODULATORS[c + 1], VOLUME_MSG + CARRIERS[c + 1]} :
                /\ C26_Writes(Dispatch(events'[Len(events')]).cmds, reg) <= 1
                /\ C26_Writes(SubSeq(commands', Len(commands) + 1, Len(commands')), reg) <= 1]_vars

(***************************************************************************)
(* Voices family: two melodic MIDI channels on the same program playing    *)
(* the same note, one event per 1/TimeDen beat.                            *)
(***************************************************************************)
MaxVoiceEvents == 6

VoiceChannels == {0, 1}

VoiceNote == PolyBaseNote

VoicePitchBend ==
  \E ch \in VoiceChannels :
    /\ Len(events) < MaxVoiceEvents
    /\ ~midi_channels[ch].has_scaled_pitch_bend
    /\ ProcessEvent(SongEvent(NextIndex, 0, Len(events), "PITCH_BEND", ch, None, BendDen))

VoiceNoteOn ==
  \E ch \in VoiceChannels :
    /\ Len(events) < MaxVoiceEvents
    /\ ProcessEvent(SongEvent(NextIndex, 0, Len(events), "NOTE_ON", ch, VoiceNote, 100))

VoiceNoteOff ==
  \E ch \in VoiceChannels :
    /\ Len(events) < MaxVoiceEvents
    /\ ProcessEvent(SongEvent(NextIndex, 0, Len(events), "NOTE_OFF", ch, VoiceNote, 64))

NextVoices ==
  \/ VoicePitchBend
  \/ VoiceNoteOn
  \/ VoiceNoteOff
  \/ EndOfEvents

SpecVoices == Init /\ [][NextVoices]_vars

(***************************************************************************)
(* C25.  A NoteOff on MIDI channel A only ever keys off an OPL channel     *)
(* whose sounding note was started by a NoteOn on MIDI channel A: a note   *)
(* held by another MIDI channel B keeps its key-on bit, even when A and B  *)
(* use the same instrument and the same adjusted note.                     *)
(***************************************************************************)
C25_OwnNotesOnly ==
  [][(pc = "events" /\ Len(events') = Len(events) + 1 /\ IsNoteOff(events'[Len(events')]))
       => \A c \in 1..8 :
            (imf_channels[c].last_note # None /\ started[c] # events'[Len(events')].channel)
              => /\ imf_channels'[c].last_note = imf_channels[c].last_note
                 /\ regs'[BLOCK_MSG + c] = regs[BLOCK_MSG + c]]_vars

(***************************************************************************)
(* C30.  After a PitchBend of amount a on a melodic channel, for every     *)
(* note of that channel that is sounding on an OPL channel c, the shadows  *)
(* of 0xA0+c and 0xB0+c encode get_block_and_freq(adjusted note, a * the   *)
(* pitch-bend sensitivity of the channel, 2 semitones unless changed) with *)
(* the key-on bit still set; no channel's last_note changes.  A PitchBend  *)
(* on a percussion channel appends no commands.                            *)
(***************************************************************************)
C30_Bent(c, note, scaled_pitch_bend) ==
  LET bf == get_block_and_freq(note, scaled_pitch_bend)
  IN /\ bf.err = ""
     /\ regs'[FREQ_MSG + c] = bf.freq % 256
     /\ regs'[BLOCK_MSG + c] = KEY_ON_MASK + bf.block * 4 + (bf.freq \div 256)

C30_AllNotesBent ==
  [][(pc = "events" /\ pc' = "events" /\ Len(events') = Len(events) + 1
        /\ events'[Len(events')].type = "PITCH_BEND")
       => LET event == events'[Len(events')]
          IN IF is_percussion_event(midi_channels, event)
             THEN Len(commands') = Len(commands) /\ imf_channels' = imf_channels
             ELSE /\ \A c \in 1..8 : imf_channels'[c].last_note = imf_channels[c].last_note
                  /\ \A c \in 1..8 :
                       (started[c] = event.channel /\ imf_channels[c].last_note # None)
                         => C30_Bent(c, imf_channels[c].last_note, event.value * 2)]_vars

(***************************************************************************)
(* C27.  The MIDI engine never fails mid-stream: for every sequence of     *)
(* ControllerChange events with controller and value in 0..127 on a        *)
(* channel, MidiChannelInfo.set_controller_value completes without an      *)
(* assertion failure or exception.                                         *)
(***************************************************************************)
C27_Completes == engine_error \notin {"AssertionError", "KeyError"}

(***************************************************************************)
(* C28.  A DataEntry (CC 6 or CC 38) modifies the RPN table if and only if *)
(* the most recent selector write on the channel was an RPN selector       *)
(* (CC 101/100) leaving a pair other than (127,127); it then modifies      *)
(* exactly the entry keyed by the current (CC 101, CC 100) values.  While  *)
(* an NRPN is selected, or after the NULL selector, DataEntry leaves every *)
(* RPN entry and pitch_bend_sensitivity unchanged.                         *)
(***************************************************************************)
\* the most recent selector write on the channel among the first n events
\* was an RPN selector; a reset ends with the NRPN selectors
RECURSIVE C28_RpnWrittenLast(_, _)
C28_RpnWrittenLast(channel, n) ==
  IF n = 0 THEN FALSE
  ELSE IF engine_events[n].channel # channel THEN C28_RpnWrittenLast(channel, n - 1)
  ELSE IF engine_events[n].controller \in {RPN_MSB, RPN_LSB} THEN TRUE
  ELSE IF engine_events[n].controller \in {NRPN_MSB, NRPN_LSB, RESET_ALL_CONTROLLERS} THEN FALSE
  ELSE C28_RpnWrittenLast(channel, n - 1)

C28_DataEntryStep(event) ==
  LET old == channels[event.channel]
      new == channels'[event.channel]
      rpn == get_msb_lsb_values(old, RPN_MSB)
  IN IF C28_RpnWrittenLast(event.channel, Len(engine_events)) /\ rpn # NULL_RPN
     THEN /\ engine_error' = ""
          /\ rpn \in DOMAIN old.rpn
          /\ new.rpn = [old.rpn EXCEPT ![rpn] = <<new._controllers[DATA_ENTRY_MSB],
                                                   new._controllers[DATA_ENTRY_LSB]>>]
     ELSE /\ engine_error' = ""
          /\ new.rpn = old.rpn
          /\ new._pitch_bend_sensitivity = old._pitch_bend_sensitivity

C28_DataEntry ==
  [][(Len(engine_events') = Len(engine_events) + 1
        /\ engine_events'[Len(engine_events')].controller \in {DATA_ENTRY_MSB, DATA_ENTRY_LSB})
       => C28_DataEntryStep(engine_events'[Len(engine_events')])]_vars

(***************************************************************************)
(* set_rpn_value called on a channel as constructed, for the pitch-bend    *)
(* sensitivity, with every LSB a DataEntry can leave.                      *)
(***************************************************************************)
\* the MSB values tried: none, the default, an octave, two octaves, the largest
RpnSemitones == {0, 2, 12, 24, 127}

RpnValueCalls ==
  {Pending("set_rpn_value", <<semitones, cents>>) : semitones \in RpnSemitones, cents \in 0..127}

InitRpn ==
  /\ ConverterIdle
  /\ song = DefaultSong
  /\ fp = << >>
  /\ _INSTRUMENTS = NoInstruments
  /\ _WARNINGS = << >>
  /\ log = << >>
  /\ adds = << >>
  /\ ret \in RpnValueCalls
  /\ EngineInit
  /\ ReaderInit

CallSetRpnValue ==
  /\ ret.n = 0
  /\ ret.op = "set_rpn_value"
  /\ \E ch \in {set_rpn_value(channels[0], PITCH_BEND_SENSITIVITY_RPN,
                              ret.args[1], ret.args[2])} :
       /\ channels' = [channels EXCEPT ![0] = [ch EXCEPT !.err = ""]]
       /\ engine_error' = ch.err
       /\ ret' = [ret EXCEPT !.n = 1, !.err = ch.err]
  /\ UNCHANGED <<converterVars, saveVars, catalogVars, engine_events, readerVars>>

NextRpn == CallSetRpnValue

SpecRpn == InitRpn /\ [][NextRpn]_vars

\* the fraction <<numerator, denominator>> equals n / d
C29_Equals(fraction, n, d) == fraction[1] * d = n * fraction[2]

C31_Velocity(midi_channel, note) ==
  LET active_notes == midi_channel.active_notes
      match == FirstFrom([i \in 1..Len(active_notes) |-> active_notes[i].note = note], 1)
  IN IF match = 0 THEN None ELSE active_notes[match].song_event.velocity

C31_VolumeSet(c, midi_channel) ==
  LET velocity == C31_Velocity(midi_channel, imf_channels[c].last_note)
      expected == get_volume_commands(imf_channels[c], imf_channels[c].instrument,
                                      midi_channel, velocity)
  IN velocity # None =>
       \A i \in 1..Len(expected) : regs'[expected[i][1]] = expected[i][2]

C31_VolumeFollows ==
  [][(pc = "events" /\ pc' = "events" /\ Len(events') = Len(events) + 1
        /\ events'[Len(events')].type = "CONTROLLER_CHANGE"
        /\ events'[Len(events')].controller \in {VOLUME_MSB, EXPRESSION_MSB, XG_BRIGHTNESS}
        /\ ~is_percussion_event(midi_channels, events'[Len(events')]))
       => \A c \in 1..8 :
            (started[c] = events'[Len(events')].channel /\ imf_channels[c].last_note # None)
              => C31_VolumeSet(c, midi_channels'[events'[Len(events')].channel])]_vars

(***************************************************************************)
(* Missing-instrument family: one melodic channel that can change to a     *)
(* program the catalog does not have, and percussion notes with and        *)
(* without an instrument, one event per 1/TimeDen beat.  The catalog has   *)
(* no instrument for program 2 and none for percussion note 36.            *)
(***************************************************************************)
MaxMissingEvents == 5

MissingPitchBend ==
  /\ Len(events) < MaxMissingEvents
  /\ ~midi_channels[0].has_scaled_pitch_bend
  /\ ProcessEvent(SongEvent(NextIndex, 0, Len(events), "PITCH_BEND", 0, None, BendDen))

MissingProgramChange ==
  \E program \in {1, 2} :
    /\ Len(events) < MaxMissingEvents
    /\ midi_channels[0].instrument # program
    /\ ProcessEvent(SongEvent(NextIndex, 0, Len(events), "PROGRAM_CHANGE", 0, program, None))

MissingNoteOn ==
  \E cn \in {<<0, PolyBaseNote>>, <<PERCUSSION_CHANNEL, 36>>} :
    /\ Len(events) < MaxMissingEvents
    /\ ProcessEvent(SongEvent(NextIndex, 0, Len(events), "NOTE_ON", cn[1], cn[2], 100))

MissingNoteOff ==
  \E cn \in {<<0, PolyBaseNote>>, <<PERCUSSION_CHANNEL, 36>>} :
    /\ Len(events) < MaxMissingEvents
    /\ ProcessEvent(SongEvent(NextIndex, 0, Len(events), "NOTE_OFF", cn[1], cn[2], 64))

NextMissing ==
  \/ MissingPitchBend
  \/ MissingProgramChange
  \/ MissingNoteOn
  \/ MissingNoteOff
  \/ EndOfEvents

SpecMissing == Init /\ [][NextMissing]_vars

(***************************************************************************)
(* C32.  A NoteOn whose instrument lookup returns None appends no          *)
(* commands, allocates no OPL channel and adds no entry to active_notes;   *)
(* the NoteOff of such a lookup likewise appends nothing and does not      *)
(* fail.                                                                   *)
(***************************************************************************)
C32_LookupIsNone(event) ==
  LET gi == get_event_instrument(midi_channels, event)
  IN gi.err = "" /\ gi.inst = None

C32_NoOutput ==
  [][(pc = "events" /\ Len(events') = Len(events) + 1
        /\ events'[Len(events')].type \in {"NOTE_ON", "NOTE_OFF"}
        /\ C32_LookupIsNone(events'[Len(events')]))
       => /\ pc' = "events"
          /\ commands' = commands
          /\ regs' = regs
          /\ imf_channels' = imf_channels
          /\ \A ch \in 0..15 : midi_channels'[ch].active_notes = midi_channels[ch].active_notes]_vars

\* a NoteOn then a NoteOff on the program without an instrument have been
\* consumed after a PitchBend: nothing sounds, nothing is active
C32_Witness ==
  /\ pc = "events"
  /\ Len(events) >= 4
  /\ events[Len(events) - 1].type = "NOTE_ON"
  /\ events[Len(events) - 1].channel = 0
  /\ events[Len(events)].type = "NOTE_OFF"
  /\ events[Len(events)].channel = 0
  /\ events[Len(events) - 2].type = "PROGRAM_CHANGE"
  /\ midi_channels[0].instrument = 2
  /\ midi_channels[0].has_scaled_pitch_bend
  /\ midi_channels[0].active_notes = << >>
  /\ \A c \in 1..8 : imf_channels[c].last_note = None
  /\ Len(commands) = 3

(***************************************************************************)
(* C33.  Every entry (reg, value, delay) of the command buffer after any   *)
(* conversion of a time-sorted event list satisfies 0 <= reg <= 255,       *)
(* 0 <= value <= 255 and 0 <= delay <= 65535, so that every entry can be   *)
(* packed as (u8, u8, u16), including after tempo changes.                 *)
(***************************************************************************)
C33_Packable ==
  pc \in {"events", "done"} =>
    \A i \in 1..Len(commands) :
      /\ 0 <= commands[i][1] /\ commands[i][1] <= 255
      /\ 0 <= commands[i][2] /\ commands[i][2] <= 255
      /\ 0 <= commands[i][3] /\ commands[i][3] <= 65535

(***************************************************************************)
(* The end of _convert_from: the two loops that print the MIDI channels    *)
(* and the OPL channels left with open notes.  Python tests the truth of   *)
(* active_notes and of last_note.                                          *)
(***************************************************************************)
\* the channel numbers the two loops print
HadOpenNotes(mc, ic) ==
  [midi |-> {n \in 0..15 : mc[n].active_notes # << >>},
   imf |-> {ic[i].number : i \in {j \in 1..8 : ic[j].last_note \notin {None, 0}}}]

(***************************************************************************)
(* Low-note family: one melodic channel playing the lowest MIDI note and   *)
(* middle C, one event per 1/TimeDen beat.                                 *)
(***************************************************************************)
MaxLowEvents == 5

LowPitchBend ==
  /\ Len(events) < MaxLowEvents
  /\ ~midi_channels[0].has_scaled_pitch_bend
  /\ ProcessEvent(SongEvent(NextIndex, 0, Len(events), "PITCH_BEND", 0, None, BendDen))

LowNoteOn ==
  \E note \in {0, PolyBaseNote} :
    /\ Len(events) < MaxLowEvents
    /\ ProcessEvent(SongEvent(NextIndex, 0, Len(events), "NOTE_ON", 0, note, 100))

LowNoteOff ==
  \E note \in {0, PolyBaseNote}, type \in {"NOTE_OFF", "NOTE_ON"} :
    /\ Len(events) < MaxLowEvents
    /\ ProcessEvent(SongEvent(NextIndex, 0, Len(events), type, 0, note,
                              IF type = "NOTE_ON" THEN 0 ELSE 64))

NextLow ==
  \/ LowPitchBend
  \/ LowNoteOn
  \/ LowNoteOff
  \/ EndOfEvents

SpecLow == Init /\ [][NextLow]_vars

\* the writes of the buffer that clear the key-on bit of a 0xB0+c register
C34_KeyOffs(cmds) ==
  Cardinality({i \in 1..Len(cmds) :
                 /\ cmds[i][1] \in {BLOCK_MSG + c : c \in 1..8}
                 /\ Bit(cmds[i][2], 5) = 0})

C34_NoteOffs(evs) == Cardinality({i \in 1..Len(evs) : IsNoteOff(evs[i])})

(***************************************************************************)
(* C34.  The converter never fabricates key-offs: the number of writes     *)
(* that clear the key-on bit of a 0xB0+c register never exceeds the number *)
(* of note-off events processed, and the finalization step after the last  *)
(* event appends no commands; every MIDI channel left with active notes    *)
(* and every OPL channel left with last_note set (including one holding    *)
(* adjusted note 0) is reported.                                           *)
(***************************************************************************)
C34_NoFabrication ==
  [][/\ C34_KeyOffs(commands') <= C34_NoteOffs(events')
     /\ (pc = "events" /\ pc' = "done") =>
          /\ Len(commands') = Len(commands)
          /\ HadOpenNotes(midi_channels', imf_channels').midi
               = {n \in 0..15 : midi_channels'[n].active_notes # << >>}
          /\ HadOpenNotes(midi_channels', imf_channels').imf
               = {c \in 1..8 : imf_channels'[c].last_note # None}]_vars

(***************************************************************************)
(* Note-off family: a short song is sorted and converted, one of its       *)
(* NoteOff events is replaced by a NoteOn with velocity 0, and the song is *)
(* sorted and converted again.                                             *)
(***************************************************************************)
MaxZeroLen == 4

\* the events of the songs, before add_event numbers them
ZeroEvents ==
  {SongEvent(0, 0, 0, "PITCH_BEND", 0, None, 2),
   SongEvent(0, 0, 0, "NOTE_ON", 0, PolyBaseNote, 100),
   SongEvent(0, 0, 0, "NOTE_OFF", 0, PolyBaseNote, 64),
   SongEvent(0, 0, 1, "NOTE_OFF", 0, PolyBaseNote, 64),
   SongEvent(0, 0, 1, "NOTE_ON", 0, PolyBaseNote, 100)}

InitZero ==
  /\ pc = "loaded"
  /\ error = ""
  /\ events = << >>
  /\ commands = << >>
  /\ regs = [r \in 0..255 |-> None]
  /\ midi_channels = [ch \in 0..15 |-> _MidiChannelInfo(ch)]
  /\ imf_channels = [i \in 1..8 |-> _ImfChannelInfo(i)]
  /\ ticks_per_beat = <<0, 1>>
  /\ last_command_ticks = 0
  /\ tempo_start_time = 0
  /\ groups = << >>
  /\ started = NotStarted
  /\ call = << >>
  /\ \E n \in 1..MaxZeroLen : \E evs \in [1..n -> ZeroEvents] :
       loaded_events = [i \in 1..n |-> [evs[i] EXCEPT !.index = i - 1]]
  /\ song_events = loaded_events
  /\ ModuleInit

\* _convert_from up to the call of process_events, on the sorted song
ZeroStart ==
  /\ pc = "sorted"
  /\ pc' = "events"
  /\ commands' = << <<0, 0, 0>>, <<DRUM_MSG, 0, 0>>, <<COMP_SINE_WAVE_MODE_MSG, 0, 0>> >>
  /\ ticks_per_beat' = set_tempo(120)
  /\ UNCHANGED <<error, events, regs, midi_channels, imf_channels, last_command_ticks,
                 tempo_start_time, groups, started, call, song_events, loaded_events,
                 moduleVars>>

\* the loop of process_events over song.events
ZeroProcess ==
  /\ Len(events) < Len(song_events)
  /\ ProcessEvent(song_events[Len(events) + 1])

ZeroEnd ==
  /\ Len(events) = Len(song_events)
  /\ EndOfEvents

\* the same song with the NoteOff at one position given as a NoteOn with
\* velocity 0; the buffer of the first conversion is kept in ret
ZeroReplace ==
  /\ pc = "done"
  /\ ret = NoCall
  /\ \E i \in 1..Len(loaded_events) :
       /\ loaded_events[i].type = "NOTE_OFF"
       /\ loaded_events' = [loaded_events EXCEPT ![i].type = "NOTE_ON", ![i].velocity = 0]
  /\ song_events' = loaded_events'
  /\ ret' = [n |-> 1, op |-> "_convert_from", args |-> loaded_events, value |-> commands,
             err |-> ""]
  /\ pc' = "loaded"
  /\ events' = << >>
  /\ commands' = << >>
  /\ regs' = [r \in 0..255 |-> None]
  /\ midi_channels' = [ch \in 0..15 |-> _MidiChannelInfo(ch)]
  /\ imf_channels' = [i \in 1..8 |-> _ImfChannelInfo(i)]
  /\ ticks_per_beat' = <<0, 1>>
  /\ last_command_ticks' = 0
  /\ tempo_start_time' = 0
  /\ groups' = << >>
  /\ started' = NotStarted
  /\ UNCHANGED <<error, call, saveVars, catalogVars, engineVars, readerVars>>

NextZero == Sort \/ ZeroStart \/ ZeroProcess \/ ZeroEnd \/ ZeroReplace

SpecZero == InitZero /\ [][NextZero]_vars

\* C35: a NoteOn with velocity 0 is equivalent to a NoteOff: the song with
\* one NoteOff replaced by a NoteOn of velocity 0 (same time, channel and
\* track) converts, after sort(), to the command buffer of the original song,
\* and in the sorted song a NoteOn with velocity 0 sits before every NoteOn
\* with a velocity above 0 of the same time stamp.
C35_ZeroIsNoteOff ==
  /\ (pc = "done" /\ ret.op = "_convert_from") => commands = ret.value
  /\ pc = "sorted" =>
       \A i, j \in 1..Len(song_events) :
         /\ song_events[i].type = "NOTE_ON" /\ song_events[i].velocity = 0
         /\ song_events[j].type = "NOTE_ON" /\ song_events[j].velocity > 0
         /\ song_events[i].time = song_events[j].time
         => i < j

(***************************************************************************)
(* MidiEngine.start(): the PROGRAM_CHANGE, CHANNEL_KEY_PRESSURE and        *)
(* PITCH_BEND branches of the loop over the song events.                   *)
(***************************************************************************)
MaxSignalEvents == 4

\* every call of the signal, whatever the channel holds
start_always(ch, field, value) ==
  [ch |-> [ch EXCEPT ![field] = value], fired |-> TRUE]

\* "Only trigger the signal if the value changes."
start_if_changed(ch, field, value) ==
  IF ch[field] # value
    THEN [ch |-> [ch EXCEPT ![field] = value], fired |-> TRUE]
    ELSE [ch |-> ch, fired |-> FALSE]

\* the channel field an event type is compared with and stored in
SignalField(type) ==
  CASE type = "PROGRAM_CHANGE" -> "instrument"
    [] type = "CHANNEL_KEY_PRESSURE" -> "key_pressure"
    [] type = "PITCH_BEND" -> "pitch_bend"

\* one iteration of the loop; the history keeps whether the signal was called
EngineSignal(type, channel, value) ==
  /\ engine_error = ""
  /\ Len(engine_events) < MaxSignalEvents
  /\ \E r \in {start_if_changed(channels[channel], SignalField(type), value)} :
       /\ channels' = [channels EXCEPT ![channel] = r.ch]
       /\ engine_events' = Append(engine_events,
            [type |-> type, channel |-> channel, value |-> value, fired |-> r.fired])
  /\ UNCHANGED <<converterVars, saveVars, catalogVars, ret, engine_error, readerVars>>

EngineProgramChange ==
  \E channel \in {0, 1}, program \in {0, 1} : EngineSignal("PROGRAM_CHANGE", channel, program)

EngineChannelKeyPressure ==
  \E channel \in {0, 1}, pressure \in {127, 64} :
    EngineSignal("CHANNEL_KEY_PRESSURE", channel, pressure)

EnginePitchBend ==
  \E channel \in {0, 1}, value \in {0, 1} : EngineSignal("PITCH_BEND", channel, value)

NextSignals == EngineProgramChange \/ EngineChannelKeyPressure \/ EnginePitchBend

SpecSignals == InitEngine /\ [][NextSignals]_vars

\* the events before position i of the type and channel of event i
C36_Earlier(i) ==
  {j \in 1..(i - 1) : /\ engine_events[j].type = engine_events[i].type
                      /\ engine_events[j].channel = engine_events[i].channel}

C36_Max(S) == CHOOSE m \in S : \A j \in S : j <= m

\* the value the channel holds when event i arrives
C36_Current(i) ==
  IF C36_Earlier(i) # {} THEN engine_events[C36_Max(C36_Earlier(i))].value
  ELSE CASE engine_events[i].type = "PROGRAM_CHANGE" -> None
         [] engine_events[i].type = "CHANNEL_KEY_PRESSURE" -> 127
         [] engine_events[i].type = "PITCH_BEND" -> 0

\* C36: a PROGRAM_CHANGE, CHANNEL_KEY_PRESSURE or PITCH_BEND event notifies
\* exactly when its value differs from the value the channel holds (at first
\* no program, pitch bend 0, key pressure 127); of two successive events of
\* one kind with one value on a channel the second never notifies; and the
\* field holds the value of the last event of its kind on the channel.
C36_OnlyOnChange ==
  /\ \A i \in 1..Len(engine_events) :
       /\ engine_events[i].fired <=> (C36_Current(i) # engine_events[i].value)
       /\ (C36_Earlier(i) # {} /\ C36_Current(i) = engine_events[i].value)
            => ~engine_events[i].fired
  /\ \A channel \in 0..15, type \in {"PROGRAM_CHANGE", "CHANNEL_KEY_PRESSURE", "PITCH_BEND"} :
       LET S == {j \in 1..Len(engine_events) : /\ engine_events[j].type = type
                                                /\ engine_events[j].channel = channel}
       IN channels[channel][SignalField(type)] =
            IF S # {} THEN engine_events[C36_Max(S)].value
            ELSE CASE type = "PROGRAM_CHANGE" -> None
                   [] type = "CHANNEL_KEY_PRESSURE" -> 127
                   [] type = "PITCH_BEND" -> 0

\* a program change that notified, its repetition that did not, and a key
\* pressure equal to the initial 127 that did not
C36_Witness ==
  /\ Len(engine_events) = 3
  /\ engine_events[1].type = "PROGRAM_CHANGE" /\ engine_events[1].fired
  /\ engine_events[2] = [engine_events[1] EXCEPT !.fired = FALSE]
  /\ engine_events[3].type = "CHANNEL_KEY_PRESSURE"
  /\ engine_events[3].value = 127
  /\ ~engine_events[3].fired
  /\ channels[engine_events[1].channel].instrument = engine_events[1].value

(***************************************************************************)
(* get_volume_commands(channel, instrument, midi_channel, note_velocity)   *)
(* called on its own: every output level and key-scale level on either     *)
(* operator, FM and AM connections, and a spread of controller values.     *)
(***************************************************************************)
\* <<VOLUME_MSB, EXPRESSION_MSB, note velocity>>
VolumeInputs ==
  {<<127, 127, 127>>, <<127, 127, 126>>, <<100, 127, 100>>, <<127, 127, 64>>, <<100, 64, 100>>,
   <<50, 127, 100>>, <<127, 127, 1>>, <<100, 127, 0>>, <<0, 127, 100>>}

BrightnessInputs == {0, 32, 63, 64, 127}

VolumeInstrument(modulator, carrier, feedback) ==
  [modulator |-> AdlibOperator(0, modulator, 0, 0, 0),
   carrier |-> AdlibOperator(0, carrier, 0, 0, 0),
   feedback |-> feedback, note_offset |-> 0, use_given_note |-> FALSE, given_note |-> 0]

\* every carrier under an FM modulator
CarrierInstruments == {VolumeInstrument(79, ksl_output, 6) : ksl_output \in 0..255}

\* modulators of each key-scale level on FM and AM connections
ModulatorInstruments ==
  {VolumeInstrument(ksl_output, 0, feedback) :
     ksl_output \in {0, 63, 79, 138, 192, 255}, feedback \in {6, 9}}

VolumeCalls ==
  {Pending("get_volume_commands", <<inst, v[1], v[2], 127, v[3]>>) :
     inst \in CarrierInstruments, v \in VolumeInputs}
  \cup {Pending("get_volume_commands", <<inst, v[1], v[2], brightness, v[3]>>) :
          inst \in ModulatorInstruments, v \in VolumeInputs, brightness \in BrightnessInputs}

\* a _MidiChannelInfo holding these controller values
VolumeChannel(volume, expression, brightness) ==
  [_MidiChannelInfo(0) EXCEPT !.controllers = [@ EXCEPT ![VOLUME_MSB] = volume,
                                                        ![EXPRESSION_MSB] = expression,
                                                        ![XG_BRIGHTNESS] = brightness]]

InitVolume ==
  /\ ConverterIdle
  /\ song = DefaultSong
  /\ fp = << >>
  /\ _INSTRUMENTS = NoInstruments
  /\ _WARNINGS = << >>
  /\ log = << >>
  /\ adds = << >>
  /\ ret \in VolumeCalls
  /\ EngineInit
  /\ ReaderInit

CallGetVolumeCommands ==
  /\ ret.n = 0
  /\ ret.op = "get_volume_commands"
  /\ ret' = [ret EXCEPT !.n = 1,
                        !.value = get_volume_commands_for(
                                    [number |-> 1], ret.args[1],
                                    VolumeChannel(ret.args[2], ret.args[3], ret.args[4]),
                                    ret.args[5])]
  /\ UNCHANGED <<converterVars, saveVars, catalogVars, engineVars, readerVars>>

NextVolume == CallGetVolumeCommands

SpecVolume == InitVolume /\ [][NextVolume]_vars

\* the MIDI volume of a call as the specification gives it
StatedVolume(volume, expression, velocity) ==
  LET mv == (volume * expression * velocity) \div 16129
  IN IF mv < 127 THEN mv ELSE 127

\* the register value of a volume-scaled operator as the specification gives it
StatedValue(ol, k, mv) ==
  BitOr(63 - ((((63 - ol) * volume_table[mv + 1]) \div 2) \div 64), k * 64)

\* C37: for every output level 0..63, key-scale level 0..3 and MIDI volume
\* mv = min(127, volume * expression * velocity div 16129), the value of a
\* volume-scaled operator is (0x3F - (((0x3F - ol) * VOLUME_TABLE[mv] / 2) >> 6))
\* OR (k << 6), it lies in 0..255, and its low 6 bits never increase when mv
\* increases.
C37_VolumeValue ==
  (ret.n = 1 /\ ret.op = "get_volume_commands") =>
    LET carrier == ret.args[1].carrier
        mv == StatedVolume(ret.args[2], ret.args[3], ret.args[5])
        value == ret.value[2][2]
    IN /\ value = StatedValue(output_level(carrier), key_scale_level(carrier), mv)
       /\ value \in 0..255
       /\ \A lower \in 0..mv :
            LET lower_value ==
                  get_volume_commands_for([number |-> 1], ret.args[1],
                                          VolumeChannel(lower, 127, ret.args[4]), 127)[2][2]
            IN /\ lower_value =
                    StatedValue(output_level(carrier), key_scale_level(carrier), lower)
               /\ lower_value % 64 >= value % 64

\* full volume on the loudest carrier with key-scale level 3: 1 OR 0xC0
C37_Witness ==
  /\ ret.n = 1
  /\ ret.op = "get_volume_commands"
  /\ ret.args[1].carrier.ksl_output = 192
  /\ StatedVolume(ret.args[2], ret.args[3], ret.args[5]) = 127
  /\ ret.value[2][2] = 193

\* C38: for an FM instrument (connection bit clear) the modulator's value is
\* the same for every channel volume, expression and velocity and, with
\* CC 74 >= 64, carries the instrument's own output level; for an AM
\* instrument modulator and carrier both follow the volume formula.
C38_ModulatorVolume ==
  (ret.n = 1 /\ ret.op = "get_volume_commands") =>
    LET inst == ret.args[1]
        mv == StatedVolume(ret.args[2], ret.args[3], ret.args[5])
        modulator_value == ret.value[1][2]
    IN IF inst.feedback % 2 = 0
       THEN /\ \A v \in VolumeInputs :
                 get_volume_commands_for([number |-> 1], inst,
                                         VolumeChannel(v[1], v[2], ret.args[4]), v[3])[1][2]
                   = modulator_value
            /\ ret.args[4] >= 64 => modulator_value = inst.modulator.ksl_output
       ELSE /\ modulator_value = StatedValue(output_level(inst.modulator),
                                             key_scale_level(inst.modulator), mv)
            /\ ret.value[2][2] = StatedValue(output_level(inst.carrier),
                                             key_scale_level(inst.carrier), mv)

\* an FM modulator left at its own level 15 (key-scale level 1) under a
\* reduced channel volume and CC 74 = 64
C38_Witness ==
  /\ ret.n = 1
  /\ ret.op = "get_volume_commands"
  /\ ret.args[1].feedback = 6
  /\ ret.args[1].modulator.ksl_output = 79
  /\ ret.args[2] = 50
  /\ ret.args[4] = 64
  /\ ret.value[1][2] = 79

(***************************************************************************)
(* MUS files with notes on MUS channels 0, 9 and 15, loaded by MusFile and *)
(* classified by MidiEngine.is_percussion_channel.                         *)
(***************************************************************************)
DrumChunks ==
  { <<16, 60>>,               \* play note 60 on channel 0
    <<25, 60>>,               \* play note 60 on channel 9
    <<31, 36>>,               \* play note 36 on channel 15
    <<15, 36>>,               \* release note 36 on channel 15
    <<96>> }                  \* finish

RECURSIVE DrumBodies(_)
DrumBodies(n) ==
  IF n = 0 THEN {<< >>}
  ELSE DrumBodies(n - 1) \cup {body \o chunk : body \in DrumBodies(n - 1), chunk \in DrumChunks}

InitMusDrums ==
  /\ ConverterIdle
  /\ song = DefaultSong
  /\ fp = << >>
  /\ _INSTRUMENTS = NoInstruments
  /\ _WARNINGS = << >>
  /\ log = << >>
  /\ adds = << >>
  /\ ret = NoCall
  /\ EngineInit
  /\ mus \in {[NoMus EXCEPT !.pc = "open",
                            !.data = MusFileBytes(_SIGNATURE, Len(body), body)] :
                body \in DrumBodies(MaxMusEvents)}
  /\ midi_file = NoMidiFile
  /\ load = NoLoad
  /\ open_files = {"caller"}

SpecMusDrums == InitMusDrums /\ [][NextMus]_vars

\* C39: in a song loaded from a MUS file the events of MUS channel 15 are
\* percussion for the engine and the events of MUS channel 9 (like every
\* other channel) are melodic.
C39_MusPercussion ==
  mus.pc = "loaded" =>
    \A i \in 1..Len(mus.events) :
      mus.events[i].channel # None =>
        (is_percussion_channel(channels, mus.events[i].channel)
           <=> mus.events[i].channel = 15)

(***************************************************************************)
(* imfcreator/plugins/midifileplugin.py: MidiFileReader._open and          *)
(* _read_events.  The reader is a record like the MUS reader's; a step is  *)
(* the header, one chunk header, or one pass through the loop of           *)
(* _read_events.  Events are kept as they are decoded; their time is       *)
(* <<ticks, division>>.  The files hold End Of Track as their only meta    *)
(* event and no controller changes, so the enum lookups of those branches  *)
(* always succeed.                                                         *)
(***************************************************************************)
MaxMidiEvents == 3

_HEADER_CHUNK_NAME == <<77, 84, 104, 100>>   \* b"MThd"

_TRACK_CHUNK_NAME == <<77, 84, 114, 107>>    \* b"MTrk"

\* _binary.u16be(fp.read(2))
u16be(m) ==
  IF m.err # "" THEN m
  ELSE IF m.pos + 2 <= Len(m.data)
    THEN [m EXCEPT !.byte = 256 * m.data[m.pos + 1] + m.data[m.pos + 2], !.pos = m.pos + 2]
  ELSE [m EXCEPT !.err = "struct.error", !.pos = Len(m.data)]

\* _binary.u32be(fp.read(4))
u32be(m) ==
  IF m.err # "" THEN m
  ELSE IF m.pos + 4 <= Len(m.data)
    THEN [m EXCEPT !.byte = ((m.data[m.pos + 1] * 256 + m.data[m.pos + 2]) * 256
                             + m.data[m.pos + 3]) * 256 + m.data[m.pos + 4],
                   !.pos = m.pos + 4]
  ELSE [m EXCEPT !.err = "struct.error", !.pos = Len(m.data)]

\* the chunk length is left in m.byte; at the end of the file the method
\* returns None, which the caller cannot unpack
_read_chunk_header(m) ==
  LET last == IF m.pos + 4 <= Len(m.data) THEN m.pos + 4 ELSE Len(m.data)
      chunk_name == SubSeq(m.data, m.pos + 1, last)
  IN IF chunk_name = << >> THEN [m |-> [m EXCEPT !.err = "TypeError"], chunk_name |-> << >>]
     ELSE [m |-> u32be([m EXCEPT !.pos = last]), chunk_name |-> chunk_name]

\* the name of a channel status without its channel
MidiEventType(event_type) ==
  CASE event_type = 128 -> "NOTE_OFF"
    [] event_type = 144 -> "NOTE_ON"
    [] event_type = 160 -> "POLYPHONIC_KEY_PRESSURE"
    [] event_type = 176 -> "CONTROLLER_CHANGE"
    [] event_type = 192 -> "PROGRAM_CHANGE"
    [] event_type = 208 -> "CHANNEL_KEY_PRESSURE"
    [] event_type = 224 -> "PITCH_BEND"
    [] event_type = 240 -> "F0_SYSEX"
    [] event_type = 247 -> "F7_SYSEX"
    [] event_type = 255 -> "META"
    [] OTHER -> ""

\* events.append(SongEvent(...)); status and running are history: the status
\* byte the event was decoded with and whether it came from running_status
MidiSongEvent(m, status, running, type, channel, a, b) ==
  IF m.err # "" THEN m
  ELSE IF m.division = 0 THEN [m EXCEPT !.err = "ZeroDivisionError"]
  ELSE [m EXCEPT !.events = Append(@, [track |-> m.track_number,
                                       time |-> <<m.event_time, m.division>>,
                                       type |-> type, channel |-> channel, a |-> a, b |-> b,
                                       status |-> status, running |-> running])]

\* data_length bytes read one by one
SkipBytes(m, data_length) ==
  IF m.err # "" THEN m
  ELSE IF m.pos + data_length <= Len(m.data) THEN [m EXCEPT !.pos = @ + data_length]
  ELSE [m EXCEPT !.err = "struct.error", !.pos = Len(m.data)]

\* the branches on event_type
ReadEventData(m, event_type, running) ==
  IF event_type \in {240, 247} THEN
    LET m1 == _read_var_length(m, 0)
    IN MidiSongEvent(SkipBytes(m1, m1.byte), event_type, running, MidiEventType(event_type),
                     None, None, None)
  ELSE IF event_type = 255 THEN
    LET m1 == _u8(m)
        m2 == _read_var_length(m1, 0)
    IN MidiSongEvent(SkipBytes(m2, m2.byte), event_type, running, "META", None, m1.byte, None)
  ELSE
    LET m0 == [m EXCEPT !.running_status = event_type]
        channel == event_type % 16
        type == event_type - channel
        m1 == _u8(m0)
        m2 == _u8(m1)
    IN IF type \in {128, 144, 160, 176, 224}
         THEN MidiSongEvent(m2, event_type, running, MidiEventType(type), channel,
                            m1.byte, m2.byte)
       ELSE IF type \in {192, 208}
         THEN MidiSongEvent(m1, event_type, running, MidiEventType(type), channel,
                            m1.byte, None)
       ELSE [m0 EXCEPT !.err = "ValueError"]

\* a new status byte leaves running_status as it was
ReadTrackEvent_keep_status(m) ==
  LET m1 == _read_var_length(m, 0)
      m2 == _u8(IF m1.err = "" THEN [m1 EXCEPT !.event_time = @ + m1.byte] ELSE m1)
      is_running == m2.byte < 128
  IN IF m2.err # "" THEN m2
     ELSE IF is_running
       THEN IF m.running_status = None
            THEN [m2 EXCEPT !.pos = @ - 1, !.err = "ValueError"]
            ELSE ReadEventData([m2 EXCEPT !.pos = @ - 1], m.running_status, TRUE)
     ELSE ReadEventData(m2, m2.byte, FALSE)

\* one pass through the body of the while loop of _read_events
ReadTrackEvent(m) ==
  LET m1 == _read_var_length(m, 0)
      m2 == _u8(IF m1.err = "" THEN [m1 EXCEPT !.event_time = @ + m1.byte] ELSE m1)
      is_running == m2.byte < 128
  IN IF m2.err # "" THEN m2
     ELSE IF is_running
       THEN IF m.running_status = None
            THEN [m2 EXCEPT !.pos = @ - 1, !.err = "ValueError"]
            ELSE ReadEventData([m2 EXCEPT !.pos = @ - 1], m.running_status, TRUE)
     ELSE ReadEventData([m2 EXCEPT !.running_status = None], m2.byte, FALSE)

\* the next pass of the loop over the tracks, or the end of _open
NextTrack(m) ==
  IF m.track_number + 1 < m.track_count
  THEN [m EXCEPT !.pc = "chunks", !.track_number = @ + 1]
  ELSE [m EXCEPT !.pc = "opened", !.track_number = @ + 1]

\* where _open stands behind a pass of the loop of _read_events
AfterEvent(m) ==
  IF m.err # "" THEN [m EXCEPT !.pc = "failed"]
  ELSE IF m.pos < m.chunk_end THEN [m EXCEPT !.pc = "events"]
  ELSE NextTrack(m)

\* the encoded events, each with a delta time of 0
MidiChunks ==
  { <<0, 144, 60, 100>>,      \* note-on, channel 0
    <<0, 62, 0>>,             \* two data bytes, no status
    <<0, 193, 5>>,            \* program change, channel 1
    <<0, 255, 47, 0>>,        \* End Of Track
    <<0, 240, 1, 247>> }      \* sysex of one byte

RECURSIVE MidiBodies(_)
MidiBodies(n) ==
  IF n = 0 THEN {<< >>}
  ELSE MidiBodies(n - 1) \cup {body \o chunk : body \in MidiBodies(n - 1), chunk \in MidiChunks}

MidiTrack(body) == _TRACK_CHUNK_NAME \o <<0, 0, 0, Len(body)>> \o body

\* format 1, two tracks, division 1; one file without a header
MidiFiles ==
  {_HEADER_CHUNK_NAME \o <<0, 0, 0, 6, 0, 1, 0, 2, 0, 1>> \o MidiTrack(first)
     \o MidiTrack(second) :
     first \in MidiBodies(MaxMidiEvents), second \in MidiBodies(1)}
  \cup {_SIGNATURE \o <<0, 0, 8, 0>>}

InitMidi ==
  /\ ConverterIdle
  /\ song = DefaultSong
  /\ fp = << >>
  /\ _INSTRUMENTS = NoInstruments
  /\ _WARNINGS = << >>
  /\ log = << >>
  /\ adds = << >>
  /\ ret = NoCall
  /\ EngineInit
  /\ mus = NoMus
  /\ midi_file \in {[NoMidiFile EXCEPT !.pc = "open", !.data = data] : data \in MidiFiles}
  /\ load = NoLoad
  /\ open_files = {"caller"}

\* _open up to the loop over the tracks
MidiOpen ==
  /\ midi_file.pc = "open"
  /\ \E h \in {_read_chunk_header(midi_file)} :
     \E file_format \in {u16be(h.m)} :
     \E track_count \in {u16be(file_format)} :
     \E division \in {u16be(track_count)} :
       midi_file' =
         IF h.m.err # "" THEN [h.m EXCEPT !.pc = "failed"]
         ELSE IF h.chunk_name # _HEADER_CHUNK_NAME \/ h.m.byte # 6
           THEN [h.m EXCEPT !.pc = "failed", !.err = "ValueError"]
         ELSE IF division.err # "" THEN [division EXCEPT !.pc = "failed"]
         ELSE IF file_format.byte \notin {0, 1}
           THEN [division EXCEPT !.pc = "failed", !.err = "ValueError"]
         ELSE IF track_count.byte = 0 THEN [division EXCEPT !.pc = "opened"]
         ELSE [division EXCEPT !.pc = "chunks", !.track_count = track_count.byte,
                               !.division = division.byte, !.track_number = 0]
  /\ UNCHANGED <<converterVars, saveVars, catalogVars, ret, engineVars, mus, load, open_files>>

\* one pass of the loop over the tracks up to the loop of _read_events
MidiReadChunk ==
  /\ midi_file.pc = "chunks"
  /\ \E h \in {_read_chunk_header(midi_file)} :
       midi_file' =
         IF h.m.err # "" THEN [h.m EXCEPT !.pc = "failed"]
         ELSE IF h.chunk_name # _TRACK_CHUNK_NAME
           THEN NextTrack([h.m EXCEPT !.pos = @ + h.m.byte])
         ELSE AfterEvent([h.m EXCEPT !.chunk_end = h.m.pos + h.m.byte,
                                     !.running_status = None, !.event_time = 0])
  /\ UNCHANGED <<converterVars, saveVars, catalogVars, ret, engineVars, mus, load, open_files>>

\* one event of a track
MidiReadEvent ==
  /\ midi_file.pc = "events"
  /\ midi_file' = AfterEvent(ReadTrackEvent(midi_file))
  /\ UNCHANGED <<converterVars, saveVars, catalogVars, ret, engineVars, mus, load, open_files>>

NextMidi == MidiOpen \/ MidiReadChunk \/ MidiReadEvent

SpecMidi == InitMidi /\ [][NextMidi]_vars

\* the events of the track being read
C40_TrackEvents(m) == {i \in 1..Len(m.events) : m.events[i].track = m.track_number}

C40_Last(S) == CHOOSE i \in S : \A j \in S : j <= i

\* the first byte behind the delta time of the event about to be read
C40_FirstByte(m) ==
  LET d == _read_var_length(m, 0)
  IN IF d.err = "" /\ d.pos < Len(d.data) THEN d.data[d.pos + 1] ELSE None

====
